---- MODULE Spec2Model ----
(***************************************************************************)
(* Temporal filtering of metabolic models (temporal/filter.py) over the    *)
(* annotation schema (temporal/schema.py).                                 *)
(*                                                                         *)
(* Ages and cutoffs are in thousandths of a Ga (2.5 Ga = 2500), optimizer  *)
(* objective values in thousandths (0.01 = 10).  An optional value is the  *)
(* empty tuple (Python None) or a one-element tuple.                       *)
(***************************************************************************)
EXTENDS Integers, Sequences, FiniteSets, TLC

(* ---------------------------------------------------------------------- *)
(* Bounds                                                                  *)
(* ---------------------------------------------------------------------- *)
MaxReactions == 2

(* ---------------------------------------------------------------------- *)
(* Optional values                                                         *)
(* ---------------------------------------------------------------------- *)
None == <<>>

Some(v) == <<v>>

Val(o) == o[1]

(* ---------------------------------------------------------------------- *)
(* filter.py: module tables                                                *)
(* ---------------------------------------------------------------------- *)
ERA_CUTOFFS ==
  [e \in {"archean", "proterozoic", "phanerozoic", "modern"} |->
     CASE e = "archean"     -> 2500
       [] e = "proterozoic" -> 541
       [] e = "phanerozoic" -> 0
       [] e = "modern"      -> 0]

confidence_levels ==
  [c \in {"high", "medium", "low", "very_low"} |->
     CASE c = "high"     -> 3
       [] c = "medium"   -> 2
       [] c = "low"      -> 1
       [] c = "very_low" -> 0]

\* str.lower() on the era names a caller passes
lower(s) ==
  CASE s = "Archean"     -> "archean"
    [] s = "PROTEROZOIC" -> "proterozoic"
    [] OTHER             -> s

\* ERA_CUTOFFS.get(era_name.lower()): None for a name outside the table
ResolveEra(name) ==
  IF lower(name) \in DOMAIN ERA_CUTOFFS THEN Some(ERA_CUTOFFS[lower(name)]) ELSE None

\* confidence_levels.get(min_confidence, -1) if min_confidence else -1
min_conf_level_of(mc) ==
  IF mc # None /\ Val(mc) # ""
    THEN IF Val(mc) \in DOMAIN confidence_levels THEN confidence_levels[Val(mc)] ELSE -1
    ELSE -1

\* confidence_levels.get(reaction_confidence, 1)
reaction_conf_level_of(c) ==
  IF c \in DOMAIN confidence_levels THEN confidence_levels[c] ELSE 1

(* ---------------------------------------------------------------------- *)
(* schema.py: ReactionTemporalAnnotation                                   *)
(* ---------------------------------------------------------------------- *)
is_appropriate_for_era(ann, era_cutoff) ==
  IF ann.estimated_age_ga = None THEN FALSE
  ELSE Val(ann.estimated_age_ga) >= era_cutoff

\* filter.py lines 121-131: era-specific flag first, age cutoff otherwise
Classify(name, ann, era_cutoff) ==
  IF name = Some("archean") /\ ann.archean_appropriate # None
    THEN Val(ann.archean_appropriate)
  ELSE IF name = Some("proterozoic") /\ ann.proterozoic_appropriate # None
    THEN Val(ann.proterozoic_appropriate)
  ELSE IF name = Some("phanerozoic") /\ ann.phanerozoic_appropriate # None
    THEN Val(ann.phanerozoic_appropriate)
  ELSE is_appropriate_for_era(ann, era_cutoff)

\* the fields the filter reads; evidence is never None (schema.py line 34), so
\* the "medium" default of filter.py line 145 is not taken
Ann(arch, prot, phan, age, conf) ==
  [archean_appropriate |-> arch, proterozoic_appropriate |-> prot,
   phanerozoic_appropriate |-> phan, estimated_age_ga |-> age,
   evidence |-> [confidence |-> conf]]

(* ---------------------------------------------------------------------- *)
(* The network model: an object on the heap, reached through a handle      *)
(* ---------------------------------------------------------------------- *)
RxnIds == <<"CAT", "PSII", "AOX", "PEROX1">>

\* original flux bounds of the i-th reaction of the caller's model
RxnLower(i) == IF i % 2 = 0 THEN -1000 ELSE 0

RxnUpper(i) == 1000 - i

Rxn(i) == [id |-> RxnIds[i], lower_bound |-> RxnLower(i), upper_bound |-> RxnUpper(i)]

UnfilteredModel(n) ==
  [id |-> <<"iJN678">>, name |-> <<"Synechocystis">>,
   reactions |-> [i \in 1..n |-> Rxn(i)], notes |-> None]

Ids(m) == {m.reactions[i].id : i \in 1..Len(m.reactions)}

IndexOf(m, rid) == CHOOSE i \in 1..Len(m.reactions) : m.reactions[i].id = rid

\* handle of the caller's model, and of the object model.copy() allocates
model == 1

NewHandle == 2

VARIABLES
  heap,                  \* handle -> model object
  annotations,           \* TemporalDatabase.reactions: reaction id -> annotation
  optimizer,             \* the solver: knocked-out reaction id (or "none") -> answer
  era_name, era_cutoff_ga, removal_strategy, preserve_essential, min_confidence,
  pc,                    \* position of the current filter_model_for_era call
  cutoff,                \* era_cutoff_ga after resolution (lines 49-55)
  filtered_model,        \* handle of the working clone, 0 before the copy
  stats,
  essential_reactions,
  idx,                   \* position of the running for-loop
  context,               \* bounds saved by "with filtered_model as temp_model"
  reactions_to_remove, reactions_to_constrain,
  warnings,
  error,                 \* the exception the call raised, "" if none
  prev,                  \* what the previous call with these arguments returned
  era_models             \* create_era_series: eras filtered so far

\* the variables of filter_model_for_era and its callers
filter_vars ==
  <<heap, annotations, optimizer, era_name, era_cutoff_ga, removal_strategy,
    preserve_essential, min_confidence, pc, cutoff, filtered_model, stats,
    essential_reactions, idx, context, reactions_to_remove,
    reactions_to_constrain, warnings, error, prev, era_models>>

VARIABLES
  kwargs,                \* arguments of a ReactionTemporalAnnotation(...) call
  built,                 \* what that construction gave, None before it
  categories, overrides, \* the ruleset of load_category_defaults
  reaction,              \* the reaction handed to the categorizer and builder
  category,              \* what categorize_reaction returned, None before
  annotated,             \* what annotate_reaction gave, None before
  clock,                 \* the next value of datetime.now()
  am_model,              \* annotate_model: the reactions of its model
  focus_on_o2,
  am_pc, am_idx,         \* position of annotate_model and of its for-loop
  annotation_list,       \* the local list "annotations" of annotate_model
  model_meta,
  am_error,              \* the exception annotate_model let through
  database,              \* a TemporalDatabase object
  adding,                \* the argument of the last add_reaction call
  db_error,              \* the exception the last add_reaction raised
  called_with,           \* both models as they were when validation was called
  original_model,        \* validate_filtered_model: its first argument
  filtered_copy,         \* ... and its second, the filtered model
  test_conditions,
  solver,                \* the optimizer's answer to each probe
  strict_bounds,         \* whether the bound setters reject lower > upper
  results,
  v_pc,                  \* position of the validate_filtered_model call
  v_context,             \* bounds saved on entering the with-block
  v_error,
  db1, db2,              \* compare_annotations: its two databases
  comparison,            \* ... and what it returned, None before the call
  AUTO_SHUTDOWN,         \* the worker's configuration, read from the environment
  MAX_IDLE_POLLS,
  EXIT_AFTER_JOB,
  sqs_queue,                 \* the messages the job queue holds
  visible,               \* ... and those of them a receive call can return
  result_store,          \* results/{job_id}/analysis.json of the output bucket
  puts,                  \* the documents the last process_job call uploaded
  message,               \* main: the message received last
  success,               \* main: what process_job returned last
  idle_polls,
  jobs_processed,
  w_pc                   \* position of the worker's main loop

schema_vars == <<kwargs, built>>

rule_vars == <<categories, overrides>>

reaction_vars == <<reaction, category, annotated>>

engine_vars == <<am_model, focus_on_o2, am_pc, am_idx, annotation_list, model_meta, am_error>>

db_vars == <<database, adding, db_error>>

validate_vars ==
  <<called_with, original_model, filtered_copy, test_conditions, solver, strict_bounds,
    results, v_pc, v_context, v_error>>

compare_vars == <<db1, db2, comparison>>

worker_vars ==
  <<AUTO_SHUTDOWN, MAX_IDLE_POLLS, EXIT_AFTER_JOB, sqs_queue, visible, result_store, puts,
    message, success, idle_polls, jobs_processed, w_pc>>

\* everything filter_model_for_era never touches
aux ==
  <<schema_vars, rule_vars, reaction_vars, clock, engine_vars, db_vars, validate_vars,
    compare_vars, worker_vars>>

vars == <<filter_vars, aux>>

inputs ==
  <<annotations, optimizer, era_name, era_cutoff_ga, removal_strategy,
    preserve_essential, min_confidence>>

(* ---------------------------------------------------------------------- *)
(* The optimizer: an external, deterministic capability                    *)
(* ---------------------------------------------------------------------- *)
Raises == [raises |-> TRUE, status |-> "error", objective_value |-> 0]

Solution(st, v) == [raises |-> FALSE, status |-> st, objective_value |-> v]

\* answer of a solve nobody looks at
Unasked == Solution("optimal", 500)

\* line 95: objective below 0.01
EssentialThreshold == 10

\* line 88
feasible(sol) == sol.status = "optimal" /\ sol.objective_value > 0

\* a knockout counted essential only when the solve is not optimal
knockout_essential_status_only(sol) == sol.status # "optimal"

\* line 95
knockout_essential(sol) ==
  sol.status # "optimal" \/ sol.objective_value < EssentialThreshold

(* ---------------------------------------------------------------------- *)
(* filter_model_for_era, lines 49-80: cutoff, copy, statistics             *)
(* ---------------------------------------------------------------------- *)
\* an unknown era name falls back to cutoff 0 instead of raising
ResolveCutoff_default(name, cutoff_arg) ==
  IF cutoff_arg = None
    THEN IF name = None THEN None
         ELSE IF ResolveEra(Val(name)) = None THEN Some(0) ELSE ResolveEra(Val(name))
    ELSE cutoff_arg

\* "if not era_cutoff_ga": a cutoff of 0.0 taken for a missing one
ResolveCutoff_falsy(name, cutoff_arg) ==
  IF cutoff_arg = None \/ cutoff_arg = Some(0)
    THEN IF name = None THEN None ELSE ResolveEra(Val(name))
    ELSE cutoff_arg

\* lines 50-55: None stands for the ValueError
ResolveCutoff(name, cutoff_arg) ==
  IF cutoff_arg = None
    THEN IF name = None THEN None ELSE ResolveEra(Val(name))
    ELSE cutoff_arg

\* no copy: the working model is the caller's object
ModelCopy_alias(hp, h) == [heap |-> hp, handle |-> h]

\* model.copy() (or its SBML round trip): a new object with the same content
ModelCopy(hp, h) == [heap |-> (NewHandle :> hp[h]) @@ hp, handle |-> NewHandle]

\* era_name or f">{era_cutoff_ga} Ga"
EraLabel(name, c) ==
  IF name # None /\ Val(name) # "" THEN <<Val(name)>> ELSE <<">", c, " Ga">>

\* no statistics: the value of stats outside a call
NoStats ==
  [era |-> <<">", 0, " Ga">>, cutoff_ga |-> 0, total_reactions |-> 0,
   removed_reactions |-> <<>>, constrained_reactions |-> <<>>,
   preserved_essential |-> <<>>, inappropriate_count |-> 0,
   appropriate_count |-> 0, unknown_count |-> 0,
   confidence_downgraded |-> None]

\* the id lists live on from the previous call instead of starting empty
NewStats_stale(name, c, total) ==
  [era |-> EraLabel(name, c), cutoff_ga |-> c, total_reactions |-> total,
   removed_reactions |-> prev.stats.removed_reactions,
   constrained_reactions |-> prev.stats.constrained_reactions,
   preserved_essential |-> prev.stats.preserved_essential,
   inappropriate_count |-> 0, appropriate_count |-> 0, unknown_count |-> 0,
   confidence_downgraded |-> None]

\* lines 70-80; confidence_downgraded is a key only setdefault creates
NewStats(name, c, total) ==
  [era |-> EraLabel(name, c), cutoff_ga |-> c, total_reactions |-> total,
   removed_reactions |-> <<>>, constrained_reactions |-> <<>>,
   preserved_essential |-> <<>>, inappropriate_count |-> 0,
   appropriate_count |-> 0, unknown_count |-> 0,
   confidence_downgraded |-> None]

Call ==
  /\ pc = "idle"
  /\ LET c == ResolveCutoff(era_name, era_cutoff_ga) IN
       IF c = None
         THEN /\ pc' = "raised"
              /\ error' = "ValueError"
              /\ UNCHANGED <<heap, cutoff, filtered_model, stats, idx>>
         ELSE LET cp == ModelCopy(heap, model) IN
              /\ cutoff' = c
              /\ heap' = cp.heap
              /\ filtered_model' = cp.handle
              /\ stats' = NewStats(era_name, Val(c), Len(heap[model].reactions))
              /\ idx' = 1
              /\ pc' = IF preserve_essential /\ removal_strategy # "mark"
                         THEN "optimize" ELSE "scan"
              /\ error' = ""
  /\ essential_reactions' = {}
  /\ reactions_to_remove' = <<>>
  /\ reactions_to_constrain' = <<>>
  /\ UNCHANGED <<inputs, context, warnings, prev, era_models>>
  /\ UNCHANGED aux

(* ---------------------------------------------------------------------- *)
(* lines 82-98: essentiality pass                                          *)
(* ---------------------------------------------------------------------- *)
Working == heap[filtered_model]

SetBounds(m, i, lb, ub) ==
  [m EXCEPT !.reactions[i].lower_bound = lb, !.reactions[i].upper_bound = ub]

\* lines 87-88, and the handler of lines 97-98 for a failing solve
Optimize ==
  /\ pc = "optimize"
  /\ LET sol == optimizer["none"] IN
       IF sol.raises
         THEN /\ warnings' = Append(warnings, <<"essential", "none">>)
              /\ pc' = "scan"
         ELSE /\ warnings' = warnings
              /\ pc' = IF feasible(sol) THEN "knockout" ELSE "scan"
  /\ idx' = 1
  /\ UNCHANGED <<heap, inputs, cutoff, filtered_model, stats, essential_reactions,
                 context, reactions_to_remove, reactions_to_constrain, error,
                 prev, era_models>>
  /\ UNCHANGED aux

\* lines 90-93: next reaction of the loop; an annotated one is knocked out
\* inside the model context, which records the bounds it had
KnockOut ==
  /\ pc = "knockout"
  /\ IF idx > Len(Working.reactions)
       THEN /\ pc' = "scan"
            /\ idx' = 1
            /\ UNCHANGED <<heap, context>>
       ELSE LET rxn == Working.reactions[idx] IN
            IF rxn.id \notin DOMAIN annotations
              THEN /\ idx' = idx + 1
                   /\ UNCHANGED <<pc, heap, context>>
              ELSE /\ context' = Some([index |-> idx, lower_bound |-> rxn.lower_bound,
                                       upper_bound |-> rxn.upper_bound])
                   /\ heap' = [heap EXCEPT ![filtered_model] = SetBounds(@, idx, 0, 0)]
                   /\ pc' = "solve"
                   /\ idx' = idx
  /\ UNCHANGED <<inputs, cutoff, filtered_model, stats, essential_reactions,
                 reactions_to_remove, reactions_to_constrain, warnings, error,
                 prev, era_models>>
  /\ UNCHANGED aux

\* a with-block that forgets what it recorded
ContextExit_keep(m, ctx) == m

\* leaving the with-block puts the recorded bounds back
ContextExit(m, ctx) ==
  IF ctx = None THEN m
  ELSE SetBounds(m, Val(ctx).index, Val(ctx).lower_bound, Val(ctx).upper_bound)

\* lines 94-96, the exit of the with-block, and lines 97-98
KnockOutSolve ==
  /\ pc = "solve"
  /\ LET rxn == Working.reactions[idx]
         sol == optimizer[rxn.id]
     IN /\ heap' = [heap EXCEPT ![filtered_model] = ContextExit(@, context)]
        /\ context' = None
        /\ IF sol.raises
             THEN /\ warnings' = Append(warnings, <<"essential", rxn.id>>)
                  /\ pc' = "scan"
                  /\ idx' = 1
                  /\ UNCHANGED essential_reactions
             ELSE /\ essential_reactions' =
                       IF knockout_essential(sol)
                         THEN essential_reactions \cup {rxn.id}
                         ELSE essential_reactions
                  /\ pc' = "knockout"
                  /\ idx' = idx + 1
                  /\ UNCHANGED warnings
  /\ UNCHANGED <<inputs, cutoff, filtered_model, stats, reactions_to_remove,
                 reactions_to_constrain, error, prev, era_models>>
  /\ UNCHANGED aux

(* ---------------------------------------------------------------------- *)
(* lines 100-165: confidence floor and the decision scan                   *)
(* ---------------------------------------------------------------------- *)
\* a level equal to the floor gated as well
below_floor_nonstrict(mc, conf) ==
  /\ mc # None /\ Val(mc) # ""
  /\ reaction_conf_level_of(conf) <= min_conf_level_of(mc)

\* line 150: the floor applies (min_confidence is truthy, level below it)
below_floor(mc, conf) ==
  /\ mc # None /\ Val(mc) # ""
  /\ reaction_conf_level_of(conf) < min_conf_level_of(mc)

\* lines 149-154
\* the floor downgrading whatever is not "constrain"
effective_strategy_of_any(strategy, mc, conf) ==
  IF below_floor(mc, conf) THEN "constrain" ELSE strategy

effective_strategy_of(strategy, mc, conf) ==
  IF below_floor(mc, conf) /\ strategy = "remove" THEN "constrain" ELSE strategy

\* line 154: stats.setdefault("confidence_downgraded", []).append(rxn.id)
SetDefaultAppend(opt, x) == IF opt = None THEN Some(<<x>>) ELSE Some(Append(Val(opt), x))

\* an unannotated reaction skipped without being counted
CountUnknown_skip(st) == st

\* line 116
CountUnknown(st) == [st EXCEPT !.unknown_count = @ + 1]

\* line 134
CountAppropriate(st) == [st EXCEPT !.appropriate_count = @ + 1]

\* an inappropriate reaction left out of the count
CountInappropriate_skip(st) == st

\* line 136
CountInappropriate(st) == [st EXCEPT !.inappropriate_count = @ + 1]

\* lines 113-165, one iteration of the for-loop
Scan ==
  /\ pc = "scan"
  /\ IF idx > Len(Working.reactions)
       THEN /\ pc' = "apply"
            /\ UNCHANGED <<idx, stats, reactions_to_remove, reactions_to_constrain,
                           warnings>>
       ELSE
         LET rxn == Working.reactions[idx] IN
         /\ pc' = pc
         /\ idx' = idx + 1
         /\ IF rxn.id \notin DOMAIN annotations
              THEN /\ stats' = CountUnknown(stats)
                   /\ UNCHANGED <<reactions_to_remove, reactions_to_constrain, warnings>>
            ELSE LET annotation == annotations[rxn.id] IN
            IF Classify(era_name, annotation, Val(cutoff))
              THEN /\ stats' = CountAppropriate(stats)
                   /\ UNCHANGED <<reactions_to_remove, reactions_to_constrain, warnings>>
            ELSE IF rxn.id \in essential_reactions
              THEN /\ stats' = [CountInappropriate(stats) EXCEPT
                                !.preserved_essential = Append(@, rxn.id)]
                   /\ warnings' = Append(warnings, <<"preserving", rxn.id>>)
                   /\ UNCHANGED <<reactions_to_remove, reactions_to_constrain>>
            ELSE
              LET conf == annotation.evidence.confidence
                  effective_strategy ==
                    effective_strategy_of(removal_strategy, min_confidence, conf)
                  downgraded == below_floor(min_confidence, conf)
                                  /\ removal_strategy = "remove"
              IN
              /\ stats' =
                   [CountInappropriate(stats) EXCEPT
                      !.confidence_downgraded =
                         IF downgraded THEN SetDefaultAppend(@, rxn.id) ELSE @,
                      !.removed_reactions =
                         IF effective_strategy = "remove" THEN Append(@, rxn.id) ELSE @,
                      !.constrained_reactions =
                         IF effective_strategy = "constrain" THEN Append(@, rxn.id) ELSE @]
              /\ reactions_to_remove' =
                   IF effective_strategy = "remove"
                     THEN Append(reactions_to_remove, rxn.id) ELSE reactions_to_remove
              /\ reactions_to_constrain' =
                   IF effective_strategy = "constrain"
                     THEN Append(reactions_to_constrain, rxn.id)
                     ELSE reactions_to_constrain
              /\ UNCHANGED warnings
  /\ UNCHANGED <<heap, inputs, cutoff, filtered_model, essential_reactions, context,
                 error, prev, era_models>>
  /\ UNCHANGED aux

(* ---------------------------------------------------------------------- *)
(* lines 167-198: apply the queued modifications, tag, return              *)
(* ---------------------------------------------------------------------- *)
HasId(m, rid) == \E i \in 1..Len(m.reactions) : m.reactions[i].id = rid

\* the first reaction removed, whichever was asked for
RemoveFromModel_first(m, rid) == [m EXCEPT !.reactions = Tail(@)]

\* the reaction is looked up but never removed
RemoveFromModel_keep(m, rid) == m

\* reactions.get_by_id(rxn_id).remove_from_model()
RemoveFromModel(m, rid) ==
  [m EXCEPT !.reactions = SelectSeq(@, LAMBDA r : r.id # rid)]

\* only the lower bound set
Constrain_lower_only(m, rid) ==
  SetBounds(m, IndexOf(m, rid), 0, m.reactions[IndexOf(m, rid)].upper_bound)

\* lines 178-180
Constrain(m, rid) == SetBounds(m, IndexOf(m, rid), 0, 0)

RECURSIVE ApplyRemovals(_, _)
\* lines 169-173: a missing id is skipped (its warning is in MissingIds)
ApplyRemovals(m, ids) ==
  IF ids = <<>> THEN m
  ELSE ApplyRemovals(IF HasId(m, Head(ids)) THEN RemoveFromModel(m, Head(ids)) ELSE m,
                     Tail(ids))

RECURSIVE ApplyConstraints(_, _)
\* lines 176-182
ApplyConstraints(m, ids) ==
  IF ids = <<>> THEN m
  ELSE ApplyConstraints(IF HasId(m, Head(ids)) THEN Constrain(m, Head(ids)) ELSE m,
                        Tail(ids))

RECURSIVE MissingIds(_, _, _)
\* the KeyError warnings of lines 172-173 and 181-182, in queue order
MissingIds(m, ids, removing) ==
  IF ids = <<>> THEN <<>>
  ELSE IF HasId(m, Head(ids))
    THEN MissingIds(IF removing THEN RemoveFromModel(m, Head(ids)) ELSE m,
                    Tail(ids), removing)
    ELSE <<<<"missing", Head(ids)>>>> \o MissingIds(m, Tail(ids), removing)

\* lines 167-182
ApplyModifications(m, strategy, to_remove, to_constrain) ==
  IF strategy = "remove" THEN ApplyRemovals(m, to_remove)
  ELSE IF strategy = "constrain" THEN ApplyConstraints(m, to_constrain)
  ELSE m

\* lines 184-196
Tag(m, orig, name, c, strategy, st) ==
  [m EXCEPT
     !.id = orig.id \o <<"_">> \o (IF name # None /\ Val(name) # ""
                                     THEN <<Val(name)>> ELSE <<"filtered">>),
     !.name = orig.name \o <<" - ">> \o EraLabel(name, c),
     !.notes = Some([era |-> EraLabel(name, c), cutoff_ga |-> c,
                     removal_strategy |-> strategy, statistics |-> st])]

Apply ==
  /\ pc = "apply"
  /\ LET queue == IF removal_strategy = "remove" THEN reactions_to_remove
                  ELSE IF removal_strategy = "constrain" THEN reactions_to_constrain
                  ELSE <<>>
         modified == ApplyModifications(Working, removal_strategy,
                                        reactions_to_remove, reactions_to_constrain)
     IN /\ heap' = [heap EXCEPT ![filtered_model] =
                      Tag(modified, heap[model], era_name, Val(cutoff),
                          removal_strategy, stats)]
        /\ warnings' = warnings \o MissingIds(Working, queue, removal_strategy = "remove")
  /\ pc' = "done"
  /\ UNCHANGED <<inputs, cutoff, filtered_model, stats, essential_reactions, idx,
                 context, reactions_to_remove, reactions_to_constrain, error,
                 prev, era_models>>
  /\ UNCHANGED aux

(* ---------------------------------------------------------------------- *)
(* Callers: the same call again, and the loop of create_era_series         *)
(* ---------------------------------------------------------------------- *)
NoResult == [returned |-> FALSE, stats |-> NoStats, filtered |-> UnfilteredModel(0)]

\* the caller drops the working state of the finished call
Forget ==
  /\ heap' = (model :> heap[model])
  /\ cutoff' = None
  /\ filtered_model' = 0
  /\ stats' = NoStats
  /\ essential_reactions' = {}
  /\ idx' = 1
  /\ context' = None
  /\ reactions_to_remove' = <<>>
  /\ reactions_to_constrain' = <<>>
  /\ warnings' = <<>>
  /\ error' = ""
  /\ pc' = "idle"

\* the caller keeps what the call returned and calls again, same arguments
Repeat ==
  /\ pc = "done"
  /\ ~prev.returned
  /\ era_models = {}
  /\ prev' = [returned |-> TRUE, stats |-> stats, filtered |-> heap[filtered_model]]
  /\ Forget
  /\ UNCHANGED <<inputs, era_models>>
  /\ UNCHANGED aux

SeriesEras == {"archean", "proterozoic", "phanerozoic"}

\* create_era_series, lines 228-236: the next era of the list, with the
\* defaults of the other parameters; era_models keeps the eras done
SeriesNext ==
  /\ pc = "done"
  /\ ~prev.returned
  /\ era_name # None /\ era_cutoff_ga = None
  /\ preserve_essential /\ min_confidence = None
  /\ era_models' = era_models \cup {Val(era_name)}
  /\ \E era \in SeriesEras \ (era_models \cup {Val(era_name)}) : era_name' = Some(era)
  /\ Forget
  /\ UNCHANGED <<annotations, optimizer, era_cutoff_ga, removal_strategy,
                 preserve_essential, min_confidence, prev>>
  /\ UNCHANGED aux

(* ---------------------------------------------------------------------- *)
(* The other components at rest                                            *)
(* ---------------------------------------------------------------------- *)
\* a call that raised e / that returned v
Raise(e) == [raises |-> TRUE, error |-> e]

Return(v) == [raises |-> FALSE, value |-> v]

\* a dictionary without keys
EmptyDict == [k \in {} |-> None]

\* dict.get(k, default); a dict is a function on the keys it has
Get(d, k, default) == IF k \in DOMAIN d THEN d[k] ELSE default

\* schema.py lines 18-38: the fields of a ReactionTemporalAnnotation
Annotation(rid, cat, est, mn, mx, arch, prot, phan, conf, stamp, who) ==
  [reaction_id |-> rid, category |-> cat, estimated_age_ga |-> est,
   age_min_ga |-> mn, age_max_ga |-> mx, archean_appropriate |-> arch,
   proterozoic_appropriate |-> prot, phanerozoic_appropriate |-> phan,
   evidence |-> [confidence |-> conf], last_updated |-> stamp, curator |-> who]

NoKwargs ==
  Annotation(<<>>, None, None, None, None, None, None, None, "medium", None, None)

NoReaction == [id |-> <<>>, name |-> <<>>, metabolites |-> EmptyDict]

\* schema.py lines 143-158: a TemporalDatabase as constructed, nothing in it
TemporalDatabase(stamp) ==
  [reactions |-> EmptyDict, models |-> EmptyDict, last_updated |-> stamp]

\* a component nobody has called yet
Idle(component) ==
  CASE component = "schema" -> kwargs = NoKwargs /\ built = None
    [] component = "rules" -> categories = EmptyDict /\ overrides = EmptyDict
    [] component = "reaction" ->
         reaction = NoReaction /\ category = None /\ annotated = None
    [] component = "clock" -> clock = 0
    [] component = "engine" ->
         /\ am_model = <<>>
         /\ focus_on_o2 = TRUE
         /\ am_pc = "idle"
         /\ am_idx = 1
         /\ annotation_list = <<>>
         /\ model_meta = None
         /\ am_error = ""
    [] component = "db" ->
         database = TemporalDatabase(None) /\ adding = None /\ db_error = ""
    [] component = "validate" ->
         /\ called_with = None
         /\ original_model = [reactions |-> <<>>, metabolites |-> {}]
         /\ filtered_copy = [reactions |-> <<>>, metabolites |-> {}]
         /\ test_conditions = None
         /\ solver = EmptyDict
         /\ strict_bounds = TRUE
         /\ results = None
         /\ v_pc = "idle"
         /\ v_context = None
         /\ v_error = ""
    [] component = "compare" ->
         /\ db1 = TemporalDatabase(None)
         /\ db2 = TemporalDatabase(None)
         /\ comparison = None
    [] component = "worker" ->
         /\ AUTO_SHUTDOWN = TRUE
         /\ MAX_IDLE_POLLS = 3
         /\ EXIT_AFTER_JOB = FALSE
         /\ sqs_queue = {}
         /\ visible = {}
         /\ result_store = EmptyDict
         /\ puts = <<>>
         /\ message = None
         /\ success = None
         /\ idle_polls = 0
         /\ jobs_processed = 0
         /\ w_pc = "idle"

AuxIdle ==
  /\ Idle("schema") /\ Idle("rules") /\ Idle("reaction") /\ Idle("clock")
  /\ Idle("engine") /\ Idle("db") /\ Idle("validate") /\ Idle("compare")
  /\ Idle("worker")

(* ---------------------------------------------------------------------- *)
(* Initial states                                                          *)
(* ---------------------------------------------------------------------- *)
InitWith(Eras, Cutoffs, Strategies, Preserves, Floors, Anns, Sol0, SolKO) ==
  /\ \E n \in 0..MaxReactions : heap = (model :> UnfilteredModel(n))
  /\ \E S \in SUBSET Ids(heap[model]) : annotations \in [S -> Anns]
  /\ era_name \in Eras
  /\ era_cutoff_ga \in Cutoffs
  /\ removal_strategy \in Strategies
  /\ preserve_essential \in Preserves
  /\ min_confidence \in Floors
  /\ LET runs == preserve_essential /\ removal_strategy # "mark" IN
     \E s0 \in (IF runs THEN Sol0 ELSE {Unasked}) :
     \E ko \in [Ids(heap[model]) -> SolKO \cup {Unasked}] :
       /\ \A r \in Ids(heap[model]) :
            ko[r] \in (IF runs /\ ~s0.raises /\ feasible(s0) /\ r \in DOMAIN annotations
                         THEN SolKO ELSE {Unasked})
       /\ optimizer = [k \in {"none"} \cup Ids(heap[model]) |->
                         IF k = "none" THEN s0 ELSE ko[k]]
  /\ pc = "idle"
  /\ cutoff = None
  /\ filtered_model = 0
  /\ stats = NoStats
  /\ essential_reactions = {}
  /\ idx = 1
  /\ context = None
  /\ reactions_to_remove = <<>>
  /\ reactions_to_constrain = <<>>
  /\ warnings = <<>>
  /\ error = ""
  /\ prev = NoResult
  /\ era_models = {}
  /\ AuxIdle

AllStrategies == {"remove", "constrain", "mark"}

AllFloors == {None, Some("high"), Some("medium"), Some("low"), Some("very_low")}

Solutions0 == {Raises, Solution("infeasible", 0), Solution("optimal", 0),
               Solution("optimal", 500)}

SolutionsKO == {Raises, Solution("infeasible", 0), Solution("optimal", 5),
                Solution("optimal", 10)}

\* CAT and PSII of the filtering scenario, and a flag that contradicts the age
Annotations ==
  { Ann(Some(TRUE), None, Some(TRUE), Some(2800), "high"),
    Ann(None, None, None, None, "medium"),
    Ann(Some(FALSE), None, None, Some(3000), "low") }

\* every strategy, with and without essentiality, every optimizer answer
Init ==
  InitWith({None, Some("archean")}, {None, Some(2800)}, AllStrategies, BOOLEAN,
           {None, Some("high")}, Annotations, Solutions0, SolutionsKO)

\* one inappropriate annotation per confidence level, one appropriate
GateAnnotations ==
  { Ann(None, None, None, None, "high"),
    Ann(None, None, None, None, "medium"),
    Ann(None, None, None, None, "low"),
    Ann(None, None, None, None, "very_low"),
    Ann(Some(TRUE), None, None, Some(2800), "low") }

\* every confidence floor against every confidence level
InitGate ==
  InitWith({Some("archean")}, {None}, AllStrategies, BOOLEAN, AllFloors,
           GateAnnotations, {Solution("optimal", 500)},
           {Solution("optimal", 5), Solution("optimal", 10)})

EraNames == {None, Some("archean"), Some("proterozoic"), Some("phanerozoic"),
             Some("modern"), Some("Archean"), Some("jurassic")}

EraCutoffs == {None, Some(0), Some(2500), Some(3000)}

\* flags set and unset, agreeing and disagreeing with the age; ages unset,
\* at a cutoff of the table and off it
EraAnnotations ==
  { Ann(Some(TRUE), Some(FALSE), None, None, "medium"),
    Ann(Some(FALSE), Some(TRUE), Some(FALSE), Some(3000), "medium"),
    Ann(None, None, Some(TRUE), Some(541), "medium"),
    Ann(None, None, None, Some(2500), "medium"),
    Ann(None, None, None, None, "medium") }

\* every era name and cutoff a caller can pass
InitEra ==
  InitWith(EraNames, EraCutoffs, {"remove"}, BOOLEAN, {None}, EraAnnotations,
           {Solution("optimal", 500)}, {Solution("optimal", 10)})

Next ==
  \/ Call
  \/ Optimize
  \/ KnockOut
  \/ KnockOutSolve
  \/ Scan
  \/ Apply
  \/ Repeat
  \/ SeriesNext

Spec == Init /\ [][Next]_vars

SpecGate == InitGate /\ [][Next]_vars

SpecEra == InitEra /\ [][Next]_vars

\* filter_model_for_era never called: the state the other components run in
FilterIdle ==
  /\ heap = (model :> UnfilteredModel(0))
  /\ annotations = <<>>
  /\ optimizer = [k \in {"none"} |-> Unasked]
  /\ era_name = None
  /\ era_cutoff_ga = None
  /\ removal_strategy = "remove"
  /\ preserve_essential = TRUE
  /\ min_confidence = None
  /\ pc = "idle"
  /\ cutoff = None
  /\ filtered_model = 0
  /\ stats = NoStats
  /\ essential_reactions = {}
  /\ idx = 1
  /\ context = None
  /\ reactions_to_remove = <<>>
  /\ reactions_to_constrain = <<>>
  /\ warnings = <<>>
  /\ error = ""
  /\ prev = NoResult
  /\ era_models = {}

(* ---------------------------------------------------------------------- *)
(* schema.py: constructing a ReactionTemporalAnnotation                    *)
(* ---------------------------------------------------------------------- *)
\* lines 40-48; est is info.data.get('estimated_age_ga'); TRUE when v passes
validate_age_min(v, est) ==
  ~(v # None /\ est # None /\ Val(v) < Val(est))

\* the comparison with age_min_ga is left out
validate_age_max_est_only(v, est, age_min) ==
  ~(v # None /\ est # None /\ Val(v) > Val(est))

\* lines 50-66; est and age_min are what info.data holds of the earlier fields
validate_age_max(v, est, age_min) ==
  ~(v # None /\ ((est # None /\ Val(v) > Val(est))
                    \/ (age_min # None /\ Val(v) > Val(age_min))))

\* no validator runs
ReactionTemporalAnnotation_unchecked(k) == Return(k)

\* the fields are validated in the order of their declaration, a field that
\* failed is missing from info.data, and one failure fails the construction
ReactionTemporalAnnotation(k) ==
  LET min_ok == validate_age_min(k.age_min_ga, k.estimated_age_ga)
      seen_min == IF min_ok THEN k.age_min_ga ELSE None
      max_ok == validate_age_max(k.age_max_ga, k.estimated_age_ga, seen_min)
  IN IF min_ok /\ max_ok THEN Return(k) ELSE Raise("ValidationError")

Construct ==
  /\ built = None
  /\ built' = Some(ReactionTemporalAnnotation(kwargs))
  /\ UNCHANGED <<filter_vars, compare_vars, worker_vars, kwargs, rule_vars, reaction_vars, clock,
                 engine_vars, db_vars, validate_vars>>

\* ages in thousandths of a Ga; 0 is an age, not a missing one
AgeValues == {None, Some(0), Some(2400), Some(2800), Some(3000)}

InitSchema ==
  /\ \E est \in AgeValues, mn \in AgeValues, mx \in AgeValues :
       kwargs = Annotation(<<"C", "A", "T">>, Some("catalases"), est, mn, mx,
                           None, None, Some(TRUE), "medium", None, Some("auto"))
  /\ built = None
  /\ FilterIdle /\ Idle("compare") /\ Idle("worker")
  /\ Idle("rules") /\ Idle("reaction") /\ Idle("clock")
  /\ Idle("engine") /\ Idle("db") /\ Idle("validate")

SpecSchema == InitSchema /\ [][Construct]_vars

(* ---------------------------------------------------------------------- *)
(* annotate.py: the categorizer and the builder                            *)
(* Identifiers and names are sequences of characters, so that "in" and     *)
(* lower() are the substring test and the case conversion of the code.     *)
(* ---------------------------------------------------------------------- *)
\* str.lower()
str_lower(s) ==
  LET upper == <<"A", "B", "C", "D", "E", "F", "G", "H", "I", "J", "K", "L", "M",
                 "N", "O", "P", "Q", "R", "S", "T", "U", "V", "W", "X", "Y", "Z">>
      lower_case == <<"a", "b", "c", "d", "e", "f", "g", "h", "i", "j", "k", "l", "m",
                      "n", "o", "p", "q", "r", "s", "t", "u", "v", "w", "x", "y", "z">>
  IN [i \in 1..Len(s) |->
        IF \E j \in 1..Len(upper) : upper[j] = s[i]
          THEN lower_case[CHOOSE j \in 1..Len(upper) : upper[j] = s[i]]
          ELSE s[i]]

\* pattern in s
In(pattern, s) ==
  \E i \in 0..(Len(s) - Len(pattern)) : SubSeq(s, i + 1, i + Len(pattern)) = pattern

\* lines 68 and 143: the oxygen-like pattern without the carbon-dioxide-like one
oxygen_like(met_id) ==
  LET m == str_lower(met_id) IN
  (In(<<"o", "2">>, m) \/ In(<<"o", "x", "y", "g", "e", "n">>, m)) /\ ~In(<<"c", "o", "2">>, m)

\* the catalase test comes after the peroxidase test
match_patterns_peroxidase_first(rxn) ==
  LET rxn_id_lower == str_lower(rxn.id)
      rxn_name_lower == IF rxn.name # <<>> THEN str_lower(rxn.name) ELSE <<>>
  IN IF In(<<"p", "e", "r", "o", "x">>, rxn_id_lower) \/ In(<<"p", "e", "r", "o", "x", "i", "d", "a", "s", "e">>, rxn_name_lower)
       THEN Some("peroxidases")
     ELSE IF In(<<"c", "a", "t">>, rxn_id_lower) /\ ~In(<<"c", "a", "t", "a">>, rxn_id_lower)
       THEN Some("catalases")
     ELSE None

\* lines 38-71: the first pattern that matches decides
match_patterns(rxn) ==
  LET rxn_id_lower == str_lower(rxn.id)
      rxn_name_lower == IF rxn.name # <<>> THEN str_lower(rxn.name) ELSE <<>>
  IN IF \/ In(<<"p", "s", "2">>, rxn_id_lower)
        \/ In(<<"p", "s", "i", "i">>, rxn_id_lower)
        \/ In(<<"p", "h", "o", "t", "o", "s", "y", "s", "t", "e", "m">>, rxn_id_lower)
       THEN Some("photosystem_ii")
     ELSE IF In(<<"p", "h", "o", "t", "o", "s", "y", "s", "t", "e", "m">>, rxn_name_lower) /\ In(<<"i", "i">>, rxn_name_lower)
       THEN Some("photosystem_ii")
     ELSE IF In(<<"c", "a", "t">>, rxn_id_lower) /\ ~In(<<"c", "a", "t", "a">>, rxn_id_lower)
       THEN Some("catalases")
     ELSE IF In(<<"c", "a", "t", "a", "l", "a", "s", "e">>, rxn_name_lower)
       THEN Some("catalases")
     ELSE IF In(<<"p", "e", "r", "o", "x">>, rxn_id_lower) \/ In(<<"p", "e", "r", "o", "x", "i", "d", "a", "s", "e">>, rxn_name_lower)
       THEN Some("peroxidases")
     ELSE IF /\ \/ In(<<"o", "x", "i", "d", "a", "s", "e">>, rxn_id_lower)
                \/ In(<<"o", "x", "i", "d", "a", "s">>, rxn_id_lower)
                \/ In(<<"o", "x", "i", "d">>, rxn_id_lower)
                \/ In(<<"o", "x", "o">>, rxn_id_lower)
             /\ ~In(<<"c", "a", "t">>, rxn_id_lower)
             /\ ~In(<<"p", "e", "r", "o", "x">>, rxn_id_lower)
       THEN Some("alternative_oxidases")
     ELSE IF \E met \in DOMAIN rxn.metabolites :
               rxn.metabolites[met] > 0 /\ oxygen_like(met)
       THEN Some("other_o2_producers")
     ELSE None

\* an override that declares no category leaves the decision to the patterns
categorize_reaction_fallthrough(rxn, ovr) ==
  IF rxn.id \in DOMAIN ovr /\ Get(ovr[rxn.id], "category", None) # None
    THEN Get(ovr[rxn.id], "category", None)
    ELSE match_patterns(rxn)

\* lines 29-71; None when no category
categorize_reaction(rxn, ovr) ==
  IF rxn.id \in DOMAIN ovr
    THEN Get(ovr[rxn.id], "category", None)
    ELSE match_patterns(rxn)

\* lines 73-112; now is the value of datetime.now()
annotate_reaction(rxn, cats, ovr, now) ==
  LET cat == categorize_reaction(rxn, ovr) IN
  IF cat = None THEN Return(None)
  ELSE
    LET cat_info == Get(cats, Val(cat), EmptyDict)
        rxn_override == Get(ovr, rxn.id, EmptyDict)
        field(f) == Get(rxn_override, f, Get(cat_info, f, None))
        made == ReactionTemporalAnnotation(
                  Annotation(rxn.id, cat, field("estimated_age_ga"),
                             field("age_min_ga"), field("age_max_ga"),
                             field("archean_appropriate"),
                             field("proterozoic_appropriate"),
                             Get(rxn_override, "phanerozoic_appropriate",
                                 Get(cat_info, "phanerozoic_appropriate", Some(TRUE))),
                             Get(cat_info, "confidence", "medium"),
                             Some(now), Some("auto")))
    IN IF made.raises THEN made ELSE Return(Some(made.value))

Categorize ==
  /\ category = None
  /\ category' = Some(categorize_reaction(reaction, overrides))
  /\ UNCHANGED <<filter_vars, compare_vars, worker_vars, schema_vars, rule_vars, reaction, annotated, clock,
                 engine_vars, db_vars, validate_vars>>

\* datetime.now() is read only when an annotation is built
AnnotateReaction ==
  /\ annotated = None
  /\ annotated' = Some(annotate_reaction(reaction, categories, overrides, clock))
  /\ clock' = IF categorize_reaction(reaction, overrides) = None THEN clock ELSE clock + 1
  /\ UNCHANGED <<filter_vars, compare_vars, worker_vars, schema_vars, rule_vars, reaction, category,
                 engine_vars, db_vars, validate_vars>>

\* reaction ids that meet the patterns alone, together and not at all
ReactionIds ==
  <<<<"P", "S", "I", "I">>, <<"C", "A", "T", "P", "S", "2">>, <<"C", "A", "T">>, <<"C", "A", "T", "A">>, <<"P", "E", "R", "O", "X">>, <<"C", "A", "T", "P", "E", "R", "O", "X">>, <<"O", "X", "O">>, <<"C", "A", "T", "A", "O", "X", "O">>,
    <<"O", "X", "I", "D", "A", "S", "E", "_", "1">>, <<"R", "1">>>>

ReactionNames == <<<<>>, <<"P", "h", "o", "t", "o", "s", "y", "s", "t", "e", "m", " ", "I", "I">>, <<"C", "a", "t", "a", "l", "a", "s", "e">>, <<"p", "e", "r", "o", "x", "i", "d", "a", "s", "e">>>>

\* metabolite -> stoichiometric coefficient; negative for a reactant
Stoichiometries ==
  <<EmptyDict,
    (<<"o", "2", "_", "c">> :> 1),
    (<<"o", "2", "_", "c">> :> -1),
    (<<"c", "o", "2", "_", "c">> :> 1),
    (<<"h", "2", "o", "_", "c">> :> -1)
      @@ (<<"O", "x", "y", "g", "e", "n", "_", "e">> :> 1)>>

\* category defaults of a ruleset
CategoryTables ==
  <<EmptyDict,
    [catalases |->
       [estimated_age_ga |-> Some(2800), age_min_ga |-> Some(3000),
        age_max_ga |-> Some(2400), archean_appropriate |-> Some(TRUE),
        confidence |-> "high"],
     photosystem_ii |->
       [estimated_age_ga |-> Some(2400), archean_appropriate |-> Some(FALSE),
        phanerozoic_appropriate |-> Some(TRUE)],
     peroxidases |-> [proterozoic_appropriate |-> Some(TRUE), confidence |-> "low"],
     other_o2_producers |-> EmptyDict]>>

\* reaction overrides of a ruleset, for the reaction rid or for another one
OverrideTables(rid) ==
  <<EmptyDict,
    (rid :> EmptyDict),
    (rid :> [category |-> Some("catalases")]),
    (rid :> [category |-> Some("catalases"), estimated_age_ga |-> Some(2600),
             archean_appropriate |-> Some(FALSE),
             phanerozoic_appropriate |-> Some(FALSE), confidence |-> "low"]),
    (rid :> [category |-> Some("peroxidases"), estimated_age_ga |-> Some(3200)]),
    (rid :> [category |-> Some("catalases"), estimated_age_ga |-> Some(3200)]),
    (<<"A", "S", "P", "O", "6">> :> [category |-> Some("alternative_oxidases")])>>

InitAnnotate ==
  /\ \E i \in 1..Len(ReactionIds), j \in 1..Len(ReactionNames),
        k \in 1..Len(Stoichiometries) :
       reaction = [id |-> ReactionIds[i], name |-> ReactionNames[j],
                   metabolites |-> Stoichiometries[k]]
  /\ \E c \in 1..Len(CategoryTables) : categories = CategoryTables[c]
  /\ \E o \in 1..Len(OverrideTables(reaction.id)) :
       overrides = OverrideTables(reaction.id)[o]
  /\ category = None
  /\ annotated = None
  /\ clock = 1
  /\ FilterIdle /\ Idle("compare") /\ Idle("worker")
  /\ Idle("schema") /\ Idle("engine") /\ Idle("db") /\ Idle("validate")

NextAnnotate == Categorize \/ AnnotateReaction

SpecAnnotate == InitAnnotate /\ [][NextAnnotate]_vars

(* ---------------------------------------------------------------------- *)
(* schema.py: TemporalDatabase.add_reaction and calculate_coverage         *)
(* ---------------------------------------------------------------------- *)
\* lines 160-164; the entry is stored before the stamps are compared, and a
\* missing stamp cannot be compared with one that is set
add_reaction(db, ann) ==
  LET stored == [db EXCEPT !.reactions = (ann.reaction_id :> ann) @@ @] IN
  IF db.last_updated = None
    THEN [db |-> [stored EXCEPT !.last_updated = ann.last_updated], error |-> ""]
  ELSE IF ann.last_updated = None
    THEN [db |-> stored, error |-> "TypeError"]
  ELSE IF Val(ann.last_updated) > Val(db.last_updated)
    THEN [db |-> [stored EXCEPT !.last_updated = ann.last_updated], error |-> ""]
  ELSE [db |-> stored, error |-> ""]

\* lines 104-119; a fraction is the pair <<numerator, denominator>>
ModelTemporalMetadata(total) ==
  [model_id |-> <<"iJN678">>, total_reactions |-> total, annotated_reactions |-> 0,
   archean_appropriate_count |-> 0, proterozoic_appropriate_count |-> 0,
   phanerozoic_appropriate_count |-> 0, annotation_coverage |-> <<0, 1>>,
   high_confidence_fraction |-> <<0, 1>>]

\* lines 121-141
calculate_coverage(meta, L) ==
  LET arch == {i \in 1..Len(L) : L[i].archean_appropriate = Some(TRUE)}
      prot == {i \in 1..Len(L) : L[i].proterozoic_appropriate = Some(TRUE)}
      phan == {i \in 1..Len(L) : L[i].phanerozoic_appropriate = Some(TRUE)}
      high == {i \in 1..Len(L) : L[i].evidence.confidence = "high"}
  IN IF meta.total_reactions > 0
       THEN [meta EXCEPT
               !.annotated_reactions = Len(L),
               !.annotation_coverage = <<Len(L), meta.total_reactions>>,
               !.archean_appropriate_count = Cardinality(arch),
               !.proterozoic_appropriate_count = Cardinality(prot),
               !.phanerozoic_appropriate_count = Cardinality(phan),
               !.high_confidence_fraction =
                  IF L # <<>> THEN <<Cardinality(high), Len(L)>> ELSE @]
       ELSE meta

\* annotations a caller may add: two ids, with and without a stamp
DbAnnotations ==
  {Annotation(rid, Some("catalases"), est, None, None, None, None, Some(TRUE),
              "medium", stamp, Some("auto")) :
     rid \in {<<"C", "A", "T">>, <<"P", "S", "I", "I">>}, est \in {None, Some(2800)},
     stamp \in {None, Some(1), Some(2), Some(3)}}

\* one call of add_reaction; the object stays usable after an exception
AddReaction ==
  /\ \E ann \in DbAnnotations :
       LET added == add_reaction(database, ann) IN
       /\ database' = added.db
       /\ adding' = Some(ann)
       /\ db_error' = added.error
  /\ UNCHANGED <<filter_vars, compare_vars, worker_vars, schema_vars, rule_vars, reaction_vars, clock,
                 engine_vars, validate_vars>>

\* a database as TemporalDatabase() or as annotate_model creates it
InitDb ==
  /\ database \in {TemporalDatabase(None), TemporalDatabase(Some(2))}
  /\ adding = None
  /\ db_error = ""
  /\ FilterIdle /\ Idle("compare") /\ Idle("worker")
  /\ Idle("schema") /\ Idle("rules") /\ Idle("reaction")
  /\ Idle("clock") /\ Idle("engine") /\ Idle("validate")

SpecDb == InitDb /\ [][AddReaction]_vars

(* ---------------------------------------------------------------------- *)
(* annotate.py: annotate_model                                             *)
(* ---------------------------------------------------------------------- *)
\* only a product counts
has_o2_products_only(rxn) ==
  \E met \in DOMAIN rxn.metabolites : rxn.metabolites[met] > 0 /\ oxygen_like(met)

\* lines 141-145: some metabolite, on either side, is oxygen-like
has_o2(rxn) == \E met \in DOMAIN rxn.metabolites : oxygen_like(met)

\* lines 120-137: the database and the metadata are created
AnnotateModel ==
  /\ am_pc = "idle"
  /\ database' = TemporalDatabase(Some(clock))
  /\ clock' = clock + 1
  /\ model_meta' = Some(ModelTemporalMetadata(Len(am_model)))
  /\ annotation_list' = <<>>
  /\ am_idx' = 1
  /\ am_pc' = "loop"
  /\ UNCHANGED <<filter_vars, compare_vars, worker_vars, schema_vars, rule_vars, reaction_vars, am_model,
                 focus_on_o2, am_error, adding, db_error, validate_vars>>

\* lines 138-152: one iteration of the loop; an exception of the builder is
\* not caught
AnnotateNext ==
  /\ am_pc = "loop"
  /\ am_idx <= Len(am_model)
  /\ LET rxn == am_model[am_idx]
         res == annotate_reaction(rxn, categories, overrides, clock)
     IN IF focus_on_o2 /\ ~has_o2(rxn)
          THEN /\ am_idx' = am_idx + 1
               /\ UNCHANGED <<database, annotation_list, am_pc, am_error, clock,
                              adding, db_error>>
        ELSE IF res.raises
          THEN /\ am_pc' = "raised"
               /\ am_error' = res.error
               /\ clock' = clock + 1
               /\ UNCHANGED <<database, annotation_list, am_idx, adding, db_error>>
        ELSE IF res.value = None
          THEN /\ am_idx' = am_idx + 1
               /\ UNCHANGED <<database, annotation_list, am_pc, am_error, clock,
                              adding, db_error>>
        ELSE LET added == add_reaction(database, Val(res.value)) IN
             /\ database' = added.db
             /\ adding' = res.value
             /\ db_error' = added.error
             /\ clock' = clock + 1
             /\ IF added.error # ""
                  THEN /\ am_pc' = "raised"
                       /\ am_error' = added.error
                       /\ UNCHANGED <<annotation_list, am_idx>>
                  ELSE /\ annotation_list' = Append(annotation_list, Val(res.value))
                       /\ am_idx' = am_idx + 1
                       /\ UNCHANGED <<am_pc, am_error>>
  /\ UNCHANGED <<filter_vars, compare_vars, worker_vars, schema_vars, rule_vars, reaction_vars, am_model,
                 focus_on_o2, model_meta, validate_vars>>

\* lines 154-158: the metadata is computed from the list and stored
AnnotateReturn ==
  /\ am_pc = "loop"
  /\ am_idx > Len(am_model)
  /\ LET meta == calculate_coverage(Val(model_meta), annotation_list) IN
       /\ model_meta' = Some(meta)
       /\ database' = [database EXCEPT !.models = (meta.model_id :> meta) @@ @]
  /\ am_pc' = "done"
  /\ UNCHANGED <<filter_vars, compare_vars, worker_vars, schema_vars, rule_vars, reaction_vars, clock, am_model,
                 focus_on_o2, am_idx, annotation_list, am_error, adding, db_error,
                 validate_vars>>

\* reactions of a model: with and without oxygen, with and without a category
ModelReactions ==
  <<[id |-> <<"C", "A", "T">>, name |-> <<"C", "a", "t", "a", "l", "a", "s", "e">>, metabolites |-> (<<"o", "2", "_", "c">> :> 1)],
    [id |-> <<"P", "S", "I", "I">>, name |-> <<>>, metabolites |-> EmptyDict],
    [id |-> <<"R", "1">>, name |-> <<>>, metabolites |-> (<<"o", "2", "_", "c">> :> -1)],
    [id |-> <<"P", "E", "R", "O", "X">>, name |-> <<>>, metabolites |-> (<<"c", "o", "2", "_", "c">> :> 1)],
    [id |-> <<"O", "X", "O">>, name |-> <<>>, metabolites |-> (<<"o", "2", "_", "c">> :> -1)]>>

\* reaction ids are unique within a model
Injective(seq) == \A i, j \in 1..Len(seq) : seq[i] = seq[j] => i = j

InitEngine ==
  /\ \E n \in 0..MaxReactions : \E pick \in [1..n -> 1..Len(ModelReactions)] :
       /\ Injective(pick)
       /\ am_model = [i \in 1..n |-> ModelReactions[pick[i]]]
  /\ focus_on_o2 \in BOOLEAN
  /\ \E c \in 1..Len(CategoryTables) : categories = CategoryTables[c]
  /\ \E o \in {1, 4, 6} : overrides = OverrideTables(<<"C", "A", "T">>)[o]
  /\ am_pc = "idle"
  /\ am_idx = 1
  /\ annotation_list = <<>>
  /\ model_meta = None
  /\ am_error = ""
  /\ clock = 1
  /\ FilterIdle /\ Idle("compare") /\ Idle("worker")
  /\ Idle("schema") /\ Idle("reaction") /\ Idle("db") /\ Idle("validate")

NextEngine == AnnotateModel \/ AnnotateNext \/ AnnotateReturn

SpecEngine == InitEngine /\ [][NextEngine]_vars

(* ---------------------------------------------------------------------- *)
(* filter.py: validate_filtered_model                                      *)
(* ---------------------------------------------------------------------- *)
\* Reaction.lower_bound / upper_bound assignment. A value on the wrong side
\* of the other bound is rejected with ValueError by a library that checks
\* bounds, and moves the other bound along in one that does not.
set_bound(m, i, key, v) ==
  LET r == m.reactions[i]
      crossing == IF key = "lower" THEN v > r.upper_bound ELSE v < r.lower_bound
  IN IF crossing /\ strict_bounds THEN [m |-> m, raised |-> TRUE]
     ELSE IF crossing THEN [m |-> SetBounds(m, i, v, v), raised |-> FALSE]
     ELSE IF key = "lower"
       THEN [m |-> SetBounds(m, i, v, r.upper_bound), raised |-> FALSE]
     ELSE [m |-> SetBounds(m, i, r.lower_bound, v), raised |-> FALSE]

\* lines 295-300 (and 302-307): one entry of test_conditions on one model
apply_condition(m, cond) ==
  IF ~HasId(m, cond.rxn_id) THEN [m |-> m, raised |-> FALSE]
  ELSE LET i == IndexOf(m, cond.rxn_id)
           low == IF "lower" \in DOMAIN cond.bounds
                    THEN set_bound(m, i, "lower", cond.bounds.lower)
                    ELSE [m |-> m, raised |-> FALSE]
       IN IF low.raised \/ "upper" \notin DOMAIN cond.bounds THEN low
          ELSE set_bound(low.m, i, "upper", cond.bounds.upper)

\* lines 293-307: the entries in the order of the dictionary, each on the
\* original first; the first exception ends the loop
RECURSIVE apply_conditions(_, _, _)
apply_conditions(orig_test, filt_test, conds) ==
  IF conds = <<>> THEN [orig |-> orig_test, filt |-> filt_test, raised |-> FALSE]
  ELSE LET o == apply_condition(orig_test, Head(conds)) IN
       IF o.raised THEN [orig |-> o.m, filt |-> filt_test, raised |-> TRUE]
       ELSE LET f == apply_condition(filt_test, Head(conds)) IN
            IF f.raised THEN [orig |-> o.m, filt |-> f.m, raised |-> TRUE]
            ELSE apply_conditions(o.m, f.m, Tail(conds))

\* the bounds set inside the with-block stay
history_reset_forget(m, saved) == m

\* leaving "with model": every bound assigned inside is put back
history_reset(m, saved) == [m EXCEPT !.reactions = saved.reactions]

\* lines 273-279: the entry of one probe in results["tests"]
probe_entry(sol) ==
  IF sol.raises THEN [status |-> "error", error |-> "solver error"]
  ELSE [status |-> sol.status,
        objective_value |-> IF sol.status = "optimal"
                              THEN Some(sol.objective_value) ELSE None]

\* no metabolite is reported
orphans_none(m) == {}

\* lines 333-339: the metabolites of m that take part in no reaction of m
orphans(m) ==
  {met \in m.metabolites :
     \A i \in 1..Len(m.reactions) : met \notin m.reactions[i].metabolites}

\* lines 262-269
ValidateCall ==
  /\ v_pc = "idle"
  /\ called_with' = Some(<<original_model, filtered_copy>>)
  /\ results' = Some([original_reactions |-> Len(original_model.reactions),
                      filtered_reactions |-> Len(filtered_copy.reactions),
                      reactions_removed |-> Len(original_model.reactions)
                                              - Len(filtered_copy.reactions),
                      original_metabolites |-> Cardinality(original_model.metabolites),
                      filtered_metabolites |-> Cardinality(filtered_copy.metabolites),
                      tests |-> EmptyDict,
                      orphan_metabolites |-> None])
  /\ v_pc' = "original_growth"
  /\ UNCHANGED <<filter_vars, compare_vars, worker_vars, schema_vars, rule_vars, reaction_vars, clock, engine_vars,
                 db_vars, original_model, filtered_copy, test_conditions, solver,
                 strict_bounds, v_context, v_error>>

\* the probe named key is recorded and the call goes on to next
Probe(key, next) ==
  /\ v_pc = key
  /\ results' = Some([Val(results) EXCEPT
                        !.tests = (key :> probe_entry(solver[key])) @@ Val(results).tests])
  /\ v_pc' = next
  /\ UNCHANGED <<filter_vars, compare_vars, worker_vars, schema_vars, rule_vars, reaction_vars, clock, engine_vars,
                 db_vars, called_with, test_conditions, solver, strict_bounds, v_error>>

\* lines 272-279
ProbeOriginal ==
  /\ Probe("original_growth", "filtered_growth")
  /\ UNCHANGED <<original_model, filtered_copy, v_context>>

\* lines 281-288, and the test of line 291: None and {} are both falsy
ProbeFiltered ==
  /\ Probe("filtered_growth",
           IF test_conditions # None /\ Val(test_conditions) # <<>>
             THEN "conditions" ELSE "orphans")
  /\ UNCHANGED <<original_model, filtered_copy, v_context>>

\* lines 292-307: both contexts are entered and the conditions applied; an
\* exception of a bound assignment leaves the block, which resets both models
ApplyConditions ==
  /\ v_pc = "conditions"
  /\ LET applied == apply_conditions(original_model, filtered_copy, Val(test_conditions))
     IN IF applied.raised
          THEN /\ original_model' = history_reset(applied.orig, original_model)
               /\ filtered_copy' = history_reset(applied.filt, filtered_copy)
               /\ v_context' = None
               /\ v_error' = "ValueError"
               /\ v_pc' = "raised"
          ELSE /\ original_model' = applied.orig
               /\ filtered_copy' = applied.filt
               /\ v_context' = Some([orig |-> original_model, filt |-> filtered_copy])
               /\ v_pc' = "original_conditional"
               /\ UNCHANGED v_error
  /\ UNCHANGED <<filter_vars, compare_vars, worker_vars, schema_vars, rule_vars, reaction_vars, clock, engine_vars,
                 db_vars, called_with, test_conditions, solver, strict_bounds, results>>

\* lines 310-317
ProbeOriginalConditional ==
  /\ Probe("original_conditional", "filtered_conditional")
  /\ UNCHANGED <<original_model, filtered_copy, v_context>>

\* lines 319-326, and the exit of the with-block
ProbeFilteredConditional ==
  /\ Probe("filtered_conditional", "orphans")
  /\ original_model' = history_reset(original_model, Val(v_context).orig)
  /\ filtered_copy' = history_reset(filtered_copy, Val(v_context).filt)
  /\ v_context' = None

\* lines 328-346
OrphanReport ==
  /\ v_pc = "orphans"
  /\ LET original_orphans == orphans(original_model)
         filtered_orphans == orphans(filtered_copy)
     IN results' = Some([Val(results) EXCEPT
                           !.orphan_metabolites =
                              Some([original |-> Cardinality(original_orphans),
                                    filtered |-> Cardinality(filtered_orphans),
                                    new_orphans |-> Cardinality(filtered_orphans
                                                                  \ original_orphans)])])
  /\ v_pc' = "done"
  /\ UNCHANGED <<filter_vars, compare_vars, worker_vars, schema_vars, rule_vars, reaction_vars, clock, engine_vars,
                 db_vars, called_with, original_model, filtered_copy, test_conditions,
                 solver, strict_bounds, v_context, v_error>>

\* the metabolites of the i-th reaction
RxnMetabolites(i) ==
  <<{"h2o2_c", "o2_c"}, {"o2_c", "h2o_c"}, {"q8h2_c"}, {"h2o2_c"}>>[i]

\* a model of n reactions; extra are metabolites no reaction uses
NetworkModel(n, extra) ==
  [reactions |-> [i \in 1..n |->
                    [id |-> RxnIds[i], lower_bound |-> RxnLower(i),
                     upper_bound |-> RxnUpper(i), metabolites |-> RxnMetabolites(i)]],
   metabolites |-> UNION {RxnMetabolites(i) : i \in 1..n} \cup extra]

\* what the filter leaves of m: the reactions in removed are gone, their
\* metabolites stay, the reactions in constrained carry no flux
FilteredFrom(m, removed, constrained) ==
  LET keep == SelectSeq(m.reactions, LAMBDA r : r.id \notin removed) IN
  [m EXCEPT !.reactions =
     [i \in 1..Len(keep) |->
        IF keep[i].id \in constrained
          THEN [keep[i] EXCEPT !.lower_bound = 0, !.upper_bound = 0]
          ELSE keep[i]]]

\* test_conditions: None, or the entries of the dictionary in their order
TestConditions ==
  <<None,
    Some(<<>>),
    Some(<<[rxn_id |-> "CAT", bounds |-> [lower |-> 0, upper |-> 0]]>>),
    Some(<<[rxn_id |-> "CAT", bounds |-> [lower |-> 5]]>>),
    Some(<<[rxn_id |-> "EX_o2_e", bounds |-> [lower |-> 0]]>>),
    Some(<<[rxn_id |-> "PSII", bounds |-> [upper |-> 10]],
           [rxn_id |-> "CAT", bounds |-> [lower |-> -5, upper |-> 5]]>>)>>

InitValidate ==
  /\ \E n \in 1..MaxReactions, extra \in {{}, {"biomass_c"}} :
       /\ original_model = NetworkModel(n, extra)
       /\ \E removed \in SUBSET Ids(original_model) :
          \E constrained \in SUBSET (Ids(original_model) \ removed) :
            filtered_copy = FilteredFrom(original_model, removed, constrained)
  /\ \E t \in 1..Len(TestConditions) : test_conditions = TestConditions[t]
  /\ LET asked == test_conditions # None /\ Val(test_conditions) # <<>> IN
       /\ strict_bounds \in (IF asked THEN BOOLEAN ELSE {TRUE})
       /\ \E o \in {Raises, Solution("infeasible", 0), Unasked},
             f \in {Raises, Solution("infeasible", 0), Unasked} :
          \E oc \in (IF asked THEN {Raises, Unasked} ELSE {Unasked}) :
          \E fc \in (IF asked THEN {Raises, Unasked} ELSE {Unasked}) :
            solver = [original_growth |-> o, filtered_growth |-> f,
                      original_conditional |-> oc, filtered_conditional |-> fc]
  /\ called_with = None
  /\ results = None
  /\ v_pc = "idle"
  /\ v_context = None
  /\ v_error = ""
  /\ FilterIdle /\ Idle("compare") /\ Idle("worker")
  /\ Idle("schema") /\ Idle("rules") /\ Idle("reaction")
  /\ Idle("clock") /\ Idle("engine") /\ Idle("db")

NextValidate ==
  \/ ValidateCall
  \/ ProbeOriginal
  \/ ProbeFiltered
  \/ ApplyConditions
  \/ ProbeOriginalConditional
  \/ ProbeFilteredConditional
  \/ OrphanReport

SpecValidate == InitValidate /\ [][NextValidate]_vars

(* ---------------------------------------------------------------------- *)
(* annotate.py: compare_annotations                                        *)
(* ---------------------------------------------------------------------- *)
\* a missing flag counts as false
flags_agree_truthy(ann1, ann2) ==
  (ann1.archean_appropriate = Some(TRUE)) = (ann2.archean_appropriate = Some(TRUE))

\* line 181
flags_agree(ann1, ann2) == ann1.archean_appropriate = ann2.archean_appropriate

\* lines 163-194; order is the order in which the set common_ids is iterated,
\* and the two "unique" lists, built from sets, are kept as sets
compare_annotations(d1, d2, order) ==
  LET differing == SelectSeq(order, LAMBDA rid :
                     ~flags_agree(d1.reactions[rid], d2.reactions[rid]))
      common_ids == DOMAIN d1.reactions \cap DOMAIN d2.reactions
  IN [total_reactions_db1 |-> Cardinality(DOMAIN d1.reactions),
      total_reactions_db2 |-> Cardinality(DOMAIN d2.reactions),
      common_reactions |-> Cardinality(common_ids),
      agreement_on_archean |-> Len(order) - Len(differing),
      disagreement_on_archean |-> Len(differing),
      unique_to_db1 |-> DOMAIN d1.reactions \ common_ids,
      unique_to_db2 |-> DOMAIN d2.reactions \ common_ids,
      disagreements |->
        [i \in 1..Len(differing) |->
           [reaction_id |-> differing[i],
            db1_archean |-> d1.reactions[differing[i]].archean_appropriate,
            db2_archean |-> d2.reactions[differing[i]].archean_appropriate,
            db1_age |-> d1.reactions[differing[i]].estimated_age_ga,
            db2_age |-> d2.reactions[differing[i]].estimated_age_ga]]]

\* one call; the iteration order of a set of strings is not fixed
CompareAnnotations ==
  /\ comparison = None
  /\ LET common_ids == DOMAIN db1.reactions \cap DOMAIN db2.reactions IN
     \E order \in [1..Cardinality(common_ids) -> common_ids] :
       /\ Injective(order)
       /\ comparison' = Some(compare_annotations(db1, db2, order))
  /\ UNCHANGED <<filter_vars, worker_vars, db1, db2, schema_vars, rule_vars, reaction_vars, clock,
                 engine_vars, db_vars, validate_vars>>

\* two databases over three ids; 0 leaves the id out, the other choices are
\* annotations with the archean flag unset, true and false
InitCompare ==
  /\ \E pick1, pick2 \in [{<<"C", "A", "T">>, <<"P", "S", "I", "I">>, <<"R", "1">>} -> 0..3] :
       LET flag == <<None, Some(TRUE), Some(FALSE)>>
           age == <<None, Some(2800), Some(2400)>>
           db(pick) ==
             [TemporalDatabase(None) EXCEPT !.reactions =
                [rid \in {r \in DOMAIN pick : pick[r] # 0} |->
                   Annotation(rid, Some("catalases"), age[pick[rid]], None, None,
                              flag[pick[rid]], None, Some(TRUE), "medium", None,
                              Some("auto"))]]
       IN db1 = db(pick1) /\ db2 = db(pick2)
  /\ comparison = None
  /\ FilterIdle /\ Idle("schema") /\ Idle("rules") /\ Idle("reaction")
  /\ Idle("clock") /\ Idle("engine") /\ Idle("db") /\ Idle("validate")
  /\ Idle("worker")

SpecCompare == InitCompare /\ [][CompareAnnotations]_vars

(* ---------------------------------------------------------------------- *)
(* schema.py: calculate_coverage called again and again on one record      *)
(* ---------------------------------------------------------------------- *)
\* meta.calculate_coverage(annotations), lines 121-141
CalculateCoverage ==
  /\ model_meta # None
  /\ LET pool == <<Annotation(<<"C", "A", "T">>, None, Some(2800), None, None, Some(TRUE),
                              None, None, "high", None, None),
                   Annotation(<<"P", "S", "I", "I">>, None, Some(2400), None, None,
                              Some(FALSE), Some(TRUE), Some(TRUE), "medium", None, None),
                   Annotation(<<"R", "1">>, None, None, None, None, None, None,
                              Some(TRUE), "high", None, None)>>
     IN \E n \in 0..(MaxReactions + 1) : \E pick \in [1..n -> 1..Len(pool)] :
          /\ annotation_list' = [i \in 1..n |-> pool[pick[i]]]
          /\ model_meta' = Some(calculate_coverage(Val(model_meta), annotation_list'))
  /\ UNCHANGED <<filter_vars, compare_vars, worker_vars, schema_vars, rule_vars,
                 reaction_vars, clock, am_model, focus_on_o2, am_pc, am_idx, am_error,
                 db_vars, validate_vars>>

\* ModelTemporalMetadata(model_id=..., total_reactions=...), not yet used
InitCoverage ==
  /\ \E total \in 0..(MaxReactions + 1) : model_meta = Some(ModelTemporalMetadata(total))
  /\ annotation_list = <<>>
  /\ am_model = <<>>
  /\ focus_on_o2 = TRUE
  /\ am_pc = "idle"
  /\ am_idx = 1
  /\ am_error = ""
  /\ FilterIdle /\ Idle("compare") /\ Idle("worker")
  /\ Idle("schema") /\ Idle("rules") /\ Idle("reaction") /\ Idle("clock")
  /\ Idle("db") /\ Idle("validate")

SpecCoverage == InitCoverage /\ [][CalculateCoverage]_vars


(* ---------------------------------------------------------------------- *)
(* aws-deploy/docker/worker_auto_shutdown.py: the queue worker             *)
(* (worker.py is the same loop with AUTO_SHUTDOWN and EXIT_AFTER_JOB off)  *)
(* ---------------------------------------------------------------------- *)
MaxPolls == 2

\* upload_results: one put_object per call, the key made of the job id
upload_results(store, docs) ==
  [job_id \in DOMAIN store \cup {docs[i].job_id : i \in DOMAIN docs} |->
     IF \E i \in DOMAIN docs : docs[i].job_id = job_id
     THEN LET last == CHOOSE i \in DOMAIN docs :
                        /\ docs[i].job_id = job_id
                        /\ \A j \in DOMAIN docs : docs[j].job_id = job_id => j <= i
          IN Some(docs[last])
     ELSE store[job_id]]

\* process_job: the body fields are read before the try block; inside it the
\* model is fetched and analysed ("load" is a failure up to there), the
\* result document is uploaded, and the filtered model is saved ("save" is a
\* failure there); the handler uploads the error document
process_job(msg, fault) ==
  IF msg.body.job_id = None \/ msg.body.model_key = None
  THEN [raises |-> TRUE, error |-> "KeyError", puts |-> <<>>]
  ELSE LET job_id == Val(msg.body.job_id)
           completed == [job_id |-> job_id, status |-> "completed"]
           failed == [job_id |-> job_id, status |-> "failed"]
       IN CASE fault = "none" -> [raises |-> FALSE, value |-> TRUE, puts |-> <<completed>>]
            [] fault = "load" -> [raises |-> FALSE, value |-> FALSE, puts |-> <<failed>>]
            [] fault = "save" ->
                 [raises |-> FALSE, value |-> FALSE, puts |-> <<completed, failed>>]

\* a shutdown one empty poll late
idle_shutdown_late(auto, polls, max_polls) == auto /\ polls > max_polls

\* line 268: if AUTO_SHUTDOWN and idle_polls >= MAX_IDLE_POLLS
idle_shutdown(auto, polls, max_polls) == auto /\ polls >= max_polls

\* main: receive_message returned no message
PollEmpty ==
  /\ w_pc = "poll"
  /\ visible = {}
  /\ idle_polls < MaxPolls
  /\ idle_polls' = idle_polls + 1
  /\ w_pc' = IF idle_shutdown(AUTO_SHUTDOWN, idle_polls', MAX_IDLE_POLLS)
               THEN "exited" ELSE "poll"
  /\ UNCHANGED <<AUTO_SHUTDOWN, MAX_IDLE_POLLS, EXIT_AFTER_JOB, sqs_queue, visible,
                 result_store, puts, message, success, jobs_processed>>
  /\ UNCHANGED <<filter_vars, compare_vars, schema_vars, rule_vars, reaction_vars, clock,
                 engine_vars, db_vars, validate_vars>>

\* main: receive_message returned one message, which the queue hides from
\* further receive calls for the visibility timeout
PollMessage ==
  /\ w_pc = "poll"
  /\ \E msg \in visible :
       /\ message' = Some(msg)
       /\ visible' = visible \ {msg}
  /\ idle_polls' = 0
  /\ w_pc' = "process"
  /\ UNCHANGED <<AUTO_SHUTDOWN, MAX_IDLE_POLLS, EXIT_AFTER_JOB, sqs_queue, result_store,
                 puts, success, jobs_processed>>
  /\ UNCHANGED <<filter_vars, compare_vars, schema_vars, rule_vars, reaction_vars, clock,
                 engine_vars, db_vars, validate_vars>>

\* main: process_job on the received message, delete_message when it
\* returned True, sys.exit when EXIT_AFTER_JOB; an exception of process_job
\* is printed by the loop's handler and the loop goes on
Process ==
  /\ w_pc = "process"
  /\ \E fault \in {"none", "load", "save"} :
       LET msg == Val(message)
           call == process_job(msg, fault)
       IN /\ puts' = call.puts
          /\ result_store' = upload_results(result_store, call.puts)
          /\ IF call.raises
             THEN /\ w_pc' = "poll"
                  /\ UNCHANGED <<success, sqs_queue, visible, jobs_processed>>
             ELSE /\ success' = Some(call.value)
                  /\ IF call.value
                     THEN /\ sqs_queue' = sqs_queue \ {msg}
                          /\ visible' = visible \ {msg}
                          /\ jobs_processed' = jobs_processed + 1
                          /\ w_pc' = IF EXIT_AFTER_JOB THEN "exited" ELSE "poll"
                     ELSE /\ w_pc' = "poll"
                          /\ UNCHANGED <<sqs_queue, visible, jobs_processed>>
  /\ UNCHANGED <<AUTO_SHUTDOWN, MAX_IDLE_POLLS, EXIT_AFTER_JOB, message, idle_polls>>
  /\ UNCHANGED <<filter_vars, compare_vars, schema_vars, rule_vars, reaction_vars, clock,
                 engine_vars, db_vars, validate_vars>>

\* the queue: the visibility timeout of a received message that was not
\* deleted runs out
Redeliver ==
  /\ w_pc \in {"poll", "process"}
  /\ \E msg \in sqs_queue \ visible : visible' = visible \cup {msg}
  /\ UNCHANGED <<AUTO_SHUTDOWN, MAX_IDLE_POLLS, EXIT_AFTER_JOB, sqs_queue, result_store,
                 puts, message, success, idle_polls, jobs_processed, w_pc>>
  /\ UNCHANGED <<filter_vars, compare_vars, schema_vars, rule_vars, reaction_vars, clock,
                 engine_vars, db_vars, validate_vars>>

\* main has read its configuration and enters the loop; the queue holds any
\* of three messages: a well-formed one, one without model_key, one without
\* job_id
InitWorker ==
  /\ AUTO_SHUTDOWN \in BOOLEAN
  /\ MAX_IDLE_POLLS \in 1..MaxPolls
  /\ EXIT_AFTER_JOB \in BOOLEAN
  /\ sqs_queue \in SUBSET
       { [receipt |-> "r1", body |-> [job_id |-> Some("j1"), model_key |-> Some("k1")]],
         [receipt |-> "r2", body |-> [job_id |-> Some("j2"), model_key |-> None]],
         [receipt |-> "r3", body |-> [job_id |-> None, model_key |-> Some("k3")]] }
  /\ visible = sqs_queue
  /\ result_store = EmptyDict
  /\ puts = <<>>
  /\ message = None
  /\ success = None
  /\ idle_polls = 0
  /\ jobs_processed = 0
  /\ w_pc = "poll"
  /\ FilterIdle /\ Idle("schema") /\ Idle("rules") /\ Idle("reaction")
  /\ Idle("clock") /\ Idle("engine") /\ Idle("db") /\ Idle("validate")
  /\ Idle("compare")

NextWorker == PollEmpty \/ PollMessage \/ Process \/ Redeliver

SpecWorker == InitWorker /\ [][NextWorker]_vars

\* the worker loop runs on while it can; the queue owes nothing
SpecWorkerLive ==
  InitWorker /\ [][NextWorker]_vars /\ WF_vars(PollEmpty \/ PollMessage \/ Process)


(* ---------------------------------------------------------------------- *)
(* Properties of filter_model_for_era                                      *)
(* ---------------------------------------------------------------------- *)
Original == heap[model]

Filtered == heap[filtered_model]

InSeq(x, seq) == \E i \in 1..Len(seq) : seq[i] = x

ReactionOf(m, rid) == m.reactions[IndexOf(m, rid)]

Downgraded ==
  IF stats.confidence_downgraded = None THEN <<>> ELSE Val(stats.confidence_downgraded)

\* annotated reactions the scan classifies inappropriate
Inappropriate ==
  {rid \in DOMAIN annotations : ~Classify(era_name, annotations[rid], Val(cutoff))}

\* C1: every id in stats constrained_reactions is still in the filtered model
\* with lower bound 0 and upper bound 0, also when it got there by a
\* confidence downgrade under strategy "remove".
C1_ConstrainedAreZeroed ==
  pc = "done" =>
    \A i \in 1..Len(stats.constrained_reactions) :
      LET rid == stats.constrained_reactions[i] IN
      /\ HasId(Filtered, rid)
      /\ ReactionOf(Filtered, rid).lower_bound = 0
      /\ ReactionOf(Filtered, rid).upper_bound = 0

\* rank of a confidence level: high 3, medium 2, low 1, very_low 0
Rank(c) ==
  CASE c = "high" -> 3 [] c = "medium" -> 2 [] c = "low" -> 1 [] c = "very_low" -> 0

\* C2: an inappropriate, non-essential reaction is confidence-downgraded (and
\* then constrained, never removed) exactly when the strategy is "remove",
\* a floor is set and the reaction's rank is strictly below the floor's;
\* without a floor, or under "constrain" or "mark", nothing is downgraded and
\* the reaction is treated as the strategy says.
C2_DowngradeIffBelowFloor ==
  pc = "done" =>
    /\ \A rid \in Inappropriate \ essential_reactions :
         LET conf == annotations[rid].evidence.confidence
             gated == /\ removal_strategy = "remove"
                      /\ min_confidence # None
                      /\ Rank(conf) < Rank(Val(min_confidence))
         IN /\ InSeq(rid, Downgraded) <=> gated
            /\ gated => /\ InSeq(rid, stats.constrained_reactions)
                        /\ ~InSeq(rid, stats.removed_reactions)
            /\ ~gated =>
                 /\ InSeq(rid, stats.removed_reactions) <=> removal_strategy = "remove"
                 /\ InSeq(rid, stats.constrained_reactions)
                      <=> removal_strategy = "constrain"
    /\ \A i \in 1..Len(Downgraded) : Downgraded[i] \in Inappropriate \ essential_reactions
    /\ (min_confidence = None \/ removal_strategy \in {"constrain", "mark"})
         => stats.confidence_downgraded = None

C2_Witness ==
  /\ pc = "done"
  /\ removal_strategy = "remove"
  /\ min_confidence = Some("medium")
  /\ stats.removed_reactions # <<>>
  /\ \E i \in 1..Len(Downgraded) :
       annotations[Downgraded[i]].evidence.confidence = "low"
  /\ \E rid \in Inappropriate :
       /\ annotations[rid].evidence.confidence = "medium"
       /\ InSeq(rid, stats.removed_reactions)

\* C3: no step of a call changes the caller's model: its reactions and their
\* bounds stay what they were, through every call made on it.
C3_OriginalNeverMutated == [][heap'[model].reactions = heap[model].reactions]_vars

C3_Witness ==
  /\ pc = "done"
  /\ prev.returned
  /\ Len(prev.filtered.reactions) < Len(Original.reactions)
  /\ Len(Filtered.reactions) < Len(Original.reactions)

\* C4: the three counts add up to total_reactions, the number of reactions
\* of the original model.
C4_CountsReconcile ==
  pc = "done" =>
    /\ stats.appropriate_count + stats.inappropriate_count + stats.unknown_count
         = stats.total_reactions
    /\ stats.total_reactions = Len(Original.reactions)

C4_Witness ==
  /\ pc = "done"
  /\ preserve_essential /\ min_confidence # None
  /\ stats.inappropriate_count > 0
  /\ stats.unknown_count > 0

\* C5: strategy "remove", essentiality on, no floor: removed plus preserved
\* is inappropriate_count, and the filtered model has total minus removed
\* reactions.
C5_RemoveAccounting ==
  (pc = "done" /\ removal_strategy = "remove" /\ preserve_essential
     /\ min_confidence = None) =>
    /\ Len(stats.removed_reactions) + Len(stats.preserved_essential)
         = stats.inappropriate_count
    /\ Len(Filtered.reactions)
         = stats.total_reactions - Len(stats.removed_reactions)

C5_Witness ==
  /\ pc = "done" /\ removal_strategy = "remove" /\ preserve_essential
  /\ min_confidence = None
  /\ Len(stats.removed_reactions) > 0
  /\ Len(stats.preserved_essential) > 0

\* the essentiality pass ran and no solve of it raised
PassCompleted ==
  /\ preserve_essential
  /\ removal_strategy \in {"remove", "constrain"}
  /\ ~optimizer["none"].raises
  /\ optimizer["none"].status = "optimal" /\ optimizer["none"].objective_value > 0
  /\ \A rid \in DOMAIN annotations : ~optimizer[rid].raises

\* C6: after a completed essentiality pass, an inappropriate reaction whose
\* knockout is not optimal or has an objective below 0.01 is preserved: listed
\* in preserved_essential, neither removed nor constrained, and in the
\* filtered model with its original bounds.
C6_EssentialPreserved ==
  (pc = "done" /\ PassCompleted) =>
    \A rid \in Inappropriate :
      (optimizer[rid].status # "optimal" \/ optimizer[rid].objective_value < 10) =>
        /\ InSeq(rid, stats.preserved_essential)
        /\ ~InSeq(rid, stats.removed_reactions)
        /\ ~InSeq(rid, stats.constrained_reactions)
        /\ HasId(Filtered, rid)
        /\ ReactionOf(Filtered, rid) = ReactionOf(Original, rid)

C6_Witness ==
  /\ pc = "done" /\ PassCompleted
  /\ removal_strategy = "remove"
  /\ min_confidence # None
  /\ \E rid \in Inappropriate :
       /\ optimizer[rid] = Solution("optimal", 5)
       /\ InSeq(rid, stats.preserved_essential)
  /\ \E rid \in Inappropriate : optimizer[rid] = Solution("optimal", 10)

\* the era flag of an annotation that matches a requested era name
FlagFor(name, ann) ==
  IF name = None THEN None
  ELSE CASE lower(Val(name)) = "archean"     -> ann.archean_appropriate
         [] lower(Val(name)) = "proterozoic" -> ann.proterozoic_appropriate
         [] lower(Val(name)) = "phanerozoic" -> ann.phanerozoic_appropriate
         [] OTHER                            -> None

AppropriateByFlagThenAge(name, ann, c) ==
  IF FlagFor(name, ann) # None THEN Val(FlagFor(name, ann))
  ELSE ann.estimated_age_ga # None /\ Val(ann.estimated_age_ga) >= c

\* C7: for every era name cutoff resolution accepts, an annotated reaction is
\* classified by the flag of the requested era when that flag is set, and by
\* estimated_age_ga >= cutoff (false without an age) otherwise.
C7_ClassifiedByFlagThenAge ==
  pc = "done" =>
    stats.appropriate_count =
      Cardinality({rid \in DOMAIN annotations :
                     AppropriateByFlagThenAge(era_name, annotations[rid], Val(cutoff))})

\* C8 as stated: the call fails whenever neither an era name nor a cutoff is
\* supplied and whenever the supplied era name is not in the era table.
C8_FailsOnUnknownEra ==
  (pc # "idle" /\ (\/ (era_name = None /\ era_cutoff_ga = None)
                   \/ (era_name # None
                         /\ lower(Val(era_name)) \notin DOMAIN ERA_CUTOFFS)))
    => pc = "raised"

\* C8, amended: without a numeric cutoff, the call fails when the era name is
\* missing or, lower-cased, not in the era table; the error comes before the
\* copy: no clone exists, the model is untouched, nothing is returned.
C8_FailsBeforeCopy ==
  /\ (pc # "idle" /\ era_cutoff_ga = None
        /\ (era_name = None \/ lower(Val(era_name)) \notin DOMAIN ERA_CUTOFFS))
       => pc = "raised"
  /\ pc = "raised" =>
       /\ error = "ValueError"
       /\ filtered_model = 0
       /\ DOMAIN heap = {model}
       /\ Original = UnfilteredModel(Len(Original.reactions))
       /\ stats = NoStats

C8_Witness ==
  /\ pc = "raised"
  /\ era_name = Some("jurassic")
  /\ Len(Original.reactions) > 0

\* C9: a supplied numeric cutoff is the cutoff used and echoed, whatever era
\* name comes with it; an era name alone gives archean 2.5, proterozoic
\* 0.541, phanerozoic 0.0, modern 0.0.
C9_CutoffResolution ==
  pc \in {"optimize", "knockout", "solve", "scan", "apply", "done"} =>
    /\ cutoff = Some(stats.cutoff_ga)
    /\ era_cutoff_ga # None => stats.cutoff_ga = Val(era_cutoff_ga)
    /\ era_cutoff_ga = None =>
         /\ era_name = Some("archean") => stats.cutoff_ga = 2500
         /\ era_name = Some("proterozoic") => stats.cutoff_ga = 541
         /\ era_name = Some("phanerozoic") => stats.cutoff_ga = 0
         /\ era_name = Some("modern") => stats.cutoff_ga = 0

C9_Witness ==
  /\ pc = "done"
  /\ era_name = Some("archean")
  /\ era_cutoff_ga = Some(0)
  /\ stats.cutoff_ga = 0
  /\ stats.appropriate_count > 0

StatsKeys == {k \in DOMAIN stats : k # "confidence_downgraded"}
               \cup (IF stats.confidence_downgraded # None
                       THEN {"confidence_downgraded"} ELSE {})

\* C11: the stats of a successful call hold the four counts, the four id
\* lists (each present even when empty) and the era and cutoff; the strategy
\* is echoed with them, and the same block is attached to the filtered model.
C11_StatsBlockComplete ==
  pc = "done" =>
    /\ {"total_reactions", "appropriate_count", "inappropriate_count",
        "unknown_count", "removed_reactions", "constrained_reactions",
        "preserved_essential", "confidence_downgraded", "era", "cutoff_ga"}
         \subseteq StatsKeys
    /\ stats.era = EraLabel(era_name, Val(cutoff))
    /\ stats.cutoff_ga = Val(cutoff)
    /\ Filtered.notes # None
    /\ Val(Filtered.notes).statistics = stats
    /\ Val(Filtered.notes).removal_strategy = removal_strategy

(* ---------------------------------------------------------------------- *)
(* Properties of the annotation schema                                     *)
(* ---------------------------------------------------------------------- *)
\* some ordering between two age fields that are both present is broken
OrderingViolated(k) ==
  \/ /\ k.age_min_ga # None /\ k.estimated_age_ga # None
     /\ Val(k.age_min_ga) < Val(k.estimated_age_ga)
  \/ /\ k.estimated_age_ga # None /\ k.age_max_ga # None
     /\ Val(k.estimated_age_ga) < Val(k.age_max_ga)
  \/ /\ k.age_min_ga # None /\ k.age_max_ga # None
     /\ Val(k.age_min_ga) < Val(k.age_max_ga)

\* C12: a construction whose present age fields break one of the orderings
\* min >= estimate, estimate >= max, min >= max fails with a validation error
\* and gives no annotation; an annotation that was constructed keeps them all.
C12_AgeOrderingEnforced ==
  built # None =>
    /\ OrderingViolated(kwargs) =>
         Val(built).raises /\ Val(built).error = "ValidationError"
    /\ ~Val(built).raises => ~OrderingViolated(Val(built).value)

\* only the ordering min >= max is broken, the estimate being absent
C12_Witness ==
  /\ built # None /\ Val(built).raises
  /\ kwargs.estimated_age_ga = None
  /\ kwargs.age_min_ga = Some(2400) /\ kwargs.age_max_ga = Some(3000)

(* ---------------------------------------------------------------------- *)
(* Properties of the categorizer and the builder                           *)
(* ---------------------------------------------------------------------- *)
\* C13: for a reaction whose id is a key of the overrides the categorizer
\* returns the category that override declares, none if it declares none,
\* whatever the id, the name and the metabolites would match.
C13_OverrideDecides ==
  (category # None /\ reaction.id \in DOMAIN overrides) =>
    Val(category) = (IF "category" \in DOMAIN overrides[reaction.id]
                       THEN overrides[reaction.id].category ELSE None)

\* the override of PSII declares no category
C13_Witness ==
  /\ category = Some(None)
  /\ reaction.id = <<"P", "S", "I", "I">>
  /\ reaction.id \in DOMAIN overrides

\* the categories in their fixed order, each with whether the reaction r
\* matches its patterns
PriorityList(r) ==
  LET id_has(p) == In(p, str_lower(r.id))
      name_has(p) == In(p, str_lower(r.name))
  IN <<[category |-> "photosystem_ii",
        hit |-> \/ id_has(<<"p", "s", "2">>) \/ id_has(<<"p", "s", "i", "i">>) \/ id_has(<<"p", "h", "o", "t", "o", "s", "y", "s", "t", "e", "m">>)
                \/ name_has(<<"p", "h", "o", "t", "o", "s", "y", "s", "t", "e", "m">>) /\ name_has(<<"i", "i">>)],
       [category |-> "catalases",
        hit |-> \/ id_has(<<"c", "a", "t">>) /\ ~id_has(<<"c", "a", "t", "a">>)
                \/ name_has(<<"c", "a", "t", "a", "l", "a", "s", "e">>)],
       [category |-> "peroxidases",
        hit |-> id_has(<<"p", "e", "r", "o", "x">>) \/ name_has(<<"p", "e", "r", "o", "x", "i", "d", "a", "s", "e">>)],
       [category |-> "alternative_oxidases",
        hit |-> /\ \/ id_has(<<"o", "x", "i", "d", "a", "s", "e">>) \/ id_has(<<"o", "x", "i", "d", "a", "s">>)
                   \/ id_has(<<"o", "x", "i", "d">>) \/ id_has(<<"o", "x", "o">>)
                /\ ~id_has(<<"c", "a", "t">>) /\ ~id_has(<<"p", "e", "r", "o", "x">>)],
       [category |-> "other_o2_producers",
        hit |-> \E met \in DOMAIN r.metabolites :
                  r.metabolites[met] > 0 /\ oxygen_like(met)]>>

\* C14: without an override the categorizer returns the first category of
\* the fixed order whose patterns match, and none when none matches.
C14_FirstMatchWins ==
  (category # None /\ reaction.id \notin DOMAIN overrides) =>
    LET list == PriorityList(reaction)
        hits == {i \in 1..Len(list) : list[i].hit}
    IN Val(category) =
         (IF hits = {} THEN None
          ELSE Some(list[CHOOSE i \in hits : \A j \in hits : i <= j].category))

\* the id holds the longer token and an oxidase pattern: neither catalases
\* nor alternative_oxidases, the produced oxygen decides
C14_Witness ==
  /\ category = Some(Some("other_o2_producers"))
  /\ reaction.id = <<"C", "A", "T", "A", "O", "X", "O">>
  /\ reaction.id \notin DOMAIN overrides

\* override, else category default, else library default
Resolved(rid, cat, f, library_default) ==
  LET o == Get(overrides, rid, EmptyDict)
      c == Get(categories, cat, EmptyDict)
  IN IF f \in DOMAIN o THEN o[f]
     ELSE IF f \in DOMAIN c THEN c[f]
     ELSE library_default

\* C15: annotate_reaction returns none exactly when the categorizer does, and
\* every field of the annotation it returns (ages, era flags, confidence) is
\* the reaction override's value, else the category default, else the
\* library default.
C15_OverrideThenCategoryThenDefault ==
  annotated # None =>
    LET res == Val(annotated)
        cat == categorize_reaction(reaction, overrides)
    IN /\ (~res.raises /\ res.value = None) <=> (cat = None)
       /\ (~res.raises /\ res.value # None) =>
            LET a == Val(res.value) IN
            /\ a.estimated_age_ga = Resolved(reaction.id, Val(cat), "estimated_age_ga", None)
            /\ a.age_min_ga = Resolved(reaction.id, Val(cat), "age_min_ga", None)
            /\ a.age_max_ga = Resolved(reaction.id, Val(cat), "age_max_ga", None)
            /\ a.archean_appropriate = Resolved(reaction.id, Val(cat), "archean_appropriate", None)
            /\ a.proterozoic_appropriate =
                 Resolved(reaction.id, Val(cat), "proterozoic_appropriate", None)
            /\ a.phanerozoic_appropriate =
                 Resolved(reaction.id, Val(cat), "phanerozoic_appropriate", Some(TRUE))
            /\ a.evidence.confidence = Resolved(reaction.id, Val(cat), "confidence", "medium")

(* ---------------------------------------------------------------------- *)
(* Properties of annotate_model                                            *)
(* ---------------------------------------------------------------------- *)
\* the reaction is one annotate_model hands to the categorizer
Candidate(rxn) ==
  focus_on_o2 => \E met \in DOMAIN rxn.metabolites : oxygen_like(met)

Categorized(rxn) == Candidate(rxn) /\ categorize_reaction(rxn, overrides) # None

\* C16: the returned database holds an annotation for exactly the candidate
\* reactions the categorizer gives a category (with focus_on_o2, candidates
\* are the reactions with an oxygen-like metabolite on either side), and the
\* metadata counts them: annotated_reactions is their number and
\* total_reactions the number of reactions of the model.
C16_DatabaseHoldsCategorizedCandidates ==
  am_pc = "done" =>
    /\ DOMAIN database.reactions =
         {am_model[i].id : i \in {j \in 1..Len(am_model) : Categorized(am_model[j])}}
    /\ Val(model_meta).annotated_reactions = Cardinality(DOMAIN database.reactions)
    /\ Val(model_meta).total_reactions = Len(am_model)
    /\ database.models[Val(model_meta).model_id] = Val(model_meta)

\* OXO consumes oxygen and is annotated, PSII has a category but no oxygen
C16_Witness ==
  /\ am_pc = "done" /\ focus_on_o2
  /\ \E i \in 1..Len(am_model) : am_model[i].id = <<"P", "S", "I", "I">>
  /\ DOMAIN database.reactions = {<<"O", "X", "O">>}

\* the age fields the builder hands to the constructor for rxn
MergedAges(rxn) ==
  LET cat == Val(categorize_reaction(rxn, overrides)) IN
  [estimated_age_ga |-> Resolved(rxn.id, cat, "estimated_age_ga", None),
   age_min_ga |-> Resolved(rxn.id, cat, "age_min_ga", None),
   age_max_ga |-> Resolved(rxn.id, cat, "age_max_ga", None)]

Violating(rxn) == Categorized(rxn) /\ OrderingViolated(MergedAges(rxn))

\* C17: a candidate whose merged age fields break the ordering ends the call
\* with the validation error: the loop never gets past it, no database is
\* returned, and no annotation breaking the ordering is ever in the database.
C17_ValidationErrorSurfaces ==
  /\ \A i \in 1..Len(am_model) :
       Violating(am_model[i]) => am_pc # "done" /\ am_idx <= i
  /\ am_pc = "raised" =>
       am_error = "ValidationError" /\ Violating(am_model[am_idx])
  /\ \A rid \in DOMAIN database.reactions :
       ~OrderingViolated(database.reactions[rid])

\* the second reaction raised after the first had been added
C17_Witness ==
  /\ am_pc = "raised" /\ am_idx = 2
  /\ DOMAIN database.reactions # {}

(* ---------------------------------------------------------------------- *)
(* Properties of TemporalDatabase                                          *)
(* ---------------------------------------------------------------------- *)
\* C18: after add_reaction calls the id of the annotation added last maps to
\* that annotation, and last_updated of the database is the greatest
\* last_updated among the annotations the database holds now.
C18_LastUpdatedIsMaxOfContained ==
  (adding # None /\ db_error = "") =>
    /\ database.reactions[Val(adding).reaction_id] = Val(adding)
    /\ LET stamps == {database.reactions[rid].last_updated :
                        rid \in DOMAIN database.reactions} \ {None}
       IN stamps # {} =>
            /\ database.last_updated \in stamps
            /\ \A st \in stamps : Val(st) <= Val(database.last_updated)

(* ---------------------------------------------------------------------- *)
(* Properties of validate_filtered_model                                   *)
(* ---------------------------------------------------------------------- *)
\* the call is inside its with-block, the conditions applied
Overridden == v_pc \in {"original_conditional", "filtered_conditional"}

\* C19: outside the with-block, and so after the call has returned or
\* raised, both models are as they were when the call was made: every
\* reaction has the bounds it had, whatever the conditional solves did.
C19_ModelsRestored ==
  (called_with # None /\ ~Overridden) =>
    <<original_model, filtered_copy>> = Val(called_with)

\* the conditions closed CAT in both models, the solve on the filtered model
\* failed, and CAT has its upper bound back
C19_Witness ==
  /\ v_pc = "done"
  /\ test_conditions = TestConditions[3]
  /\ Val(results).tests["filtered_conditional"].status = "error"
  /\ HasId(filtered_copy, "CAT") /\ HasId(original_model, "CAT")
  /\ ReactionOf(filtered_copy, "CAT").upper_bound = RxnUpper(1)

\* the metabolites of m that no reaction of m uses
Unused(m) ==
  m.metabolites \ UNION {m.reactions[i].metabolites : i \in 1..Len(m.reactions)}

\* C20: the report of a call that returned has an entry for each probe that
\* was due (the two growth probes, and the two conditional ones when
\* conditions were given), with status error where the optimizer failed and
\* the optimizer's status elsewhere, and its new_orphans is the number of
\* metabolites unused in the filtered model but used in the original.
C20_ProbesIndependent ==
  v_pc = "done" =>
    LET tests == Val(results).tests
        due == {"original_growth", "filtered_growth"}
                 \cup (IF test_conditions # None /\ Val(test_conditions) # <<>>
                         THEN {"original_conditional", "filtered_conditional"}
                         ELSE {})
    IN /\ DOMAIN tests = due
       /\ \A k \in due :
            tests[k].status = (IF solver[k].raises THEN "error" ELSE solver[k].status)
       /\ Val(results).orphan_metabolites # None
       /\ Val(Val(results).orphan_metabolites).new_orphans =
            Cardinality(Unused(filtered_copy) \ Unused(original_model))

\* the first probe failed, the three others ran, and the orphans were counted
C20_Witness ==
  /\ v_pc = "done"
  /\ Val(results).tests["original_growth"].status = "error"
  /\ Val(results).tests["filtered_growth"].status = "optimal"
  /\ "filtered_conditional" \in DOMAIN Val(results).tests
  /\ Val(Val(results).orphan_metabolites).original > 0
  /\ Val(Val(results).orphan_metabolites).new_orphans > 0

(* ---------------------------------------------------------------------- *)
(* Properties of compare_annotations                                       *)
(* ---------------------------------------------------------------------- *)
\* C21: the report splits the ids of the two databases: common_reactions
\* counts the ids in both, unique_to_db1 and unique_to_db2 are the ids in one
\* only, agreements and disagreements add up to the common ids, and the
\* disagreements list holds, for each common id whose archean flags differ,
\* exactly one entry, with the flag and the estimated age of both sides.
C21_ComparePartitions ==
  comparison # None =>
    LET c == Val(comparison)
        ids1 == DOMAIN db1.reactions
        ids2 == DOMAIN db2.reactions
        differ == {rid \in ids1 \cap ids2 :
                     db1.reactions[rid].archean_appropriate
                       # db2.reactions[rid].archean_appropriate}
    IN /\ c.common_reactions = Cardinality(ids1 \cap ids2)
       /\ c.unique_to_db1 = ids1 \ ids2
       /\ c.unique_to_db2 = ids2 \ ids1
       /\ c.agreement_on_archean + c.disagreement_on_archean = c.common_reactions
       /\ \A rid \in differ :
            Cardinality({i \in 1..Len(c.disagreements) :
                           c.disagreements[i].reaction_id = rid}) = 1
       /\ \A i \in 1..Len(c.disagreements) :
            LET e == c.disagreements[i] IN
            /\ e.reaction_id \in differ
            /\ e.db1_archean = db1.reactions[e.reaction_id].archean_appropriate
            /\ e.db2_archean = db2.reactions[e.reaction_id].archean_appropriate
            /\ e.db1_age = db1.reactions[e.reaction_id].estimated_age_ga
            /\ e.db2_age = db2.reactions[e.reaction_id].estimated_age_ga

\* one id on each side only, and a common id flagged false here, unset there
C21_Witness ==
  /\ comparison # None
  /\ Val(comparison).unique_to_db1 # {} /\ Val(comparison).unique_to_db2 # {}
  /\ Len(Val(comparison).disagreements) = 1
  /\ Val(comparison).disagreements[1].db1_archean = Some(FALSE)
  /\ Val(comparison).disagreements[1].db2_archean = None

(* ---------------------------------------------------------------------- *)
(* Properties of the queue worker                                          *)
(* ---------------------------------------------------------------------- *)
\* the document process_job left under the job id of msg, None if it uploaded
\* nothing for it
Uploaded(msg, docs) ==
  IF Len(docs) > 0 /\ msg.body.job_id = Some(docs[Len(docs)].job_id)
  THEN Some(docs[Len(docs)])
  ELSE None

\* what a step of the main loop does to the idle count and to the loop:
\* a poll returning a message resets the count; the count goes up only by an
\* empty poll, by one, and that poll ends the loop exactly when auto-shutdown
\* is on and the count has reached the maximum; processing leaves the count
\* alone and ends the loop exactly when EXIT_AFTER_JOB is on and the message
\* was processed successfully and deleted
LoopStep ==
  /\ w_pc = "poll" /\ w_pc' = "process" => idle_polls' = 0
  /\ w_pc = "poll" /\ w_pc' # "process" =>
       /\ idle_polls' \in {idle_polls, idle_polls + 1}
       /\ idle_polls' = idle_polls + 1 =>
            /\ visible = {}
            /\ w_pc' = "exited" <=> AUTO_SHUTDOWN /\ idle_polls' >= MAX_IDLE_POLLS
       /\ idle_polls' = idle_polls => w_pc' = "poll"
  /\ w_pc = "process" =>
       /\ idle_polls' = idle_polls
       /\ w_pc' = "exited" <=>
            EXIT_AFTER_JOB /\ Val(message) \in sqs_queue \ sqs_queue'
  /\ w_pc = "exited" => w_pc' = "exited"

C23_BoundsRestored ==
  /\ pc \in {"optimize", "knockout", "scan"} =>
       /\ context = None
       /\ Working.reactions = Original.reactions
  /\ pc = "solve" =>
       /\ context # None
       /\ Len(Working.reactions) = Len(Original.reactions)
       /\ \A i \in 1..Len(Working.reactions) :
            i # Val(context).index => Working.reactions[i] = Original.reactions[i]

C23_Witness ==
  /\ pc = "scan"
  /\ essential_reactions # {}
  /\ \E rid \in DOMAIN annotations :
       /\ InSeq(<<"essential", rid>>, warnings)
       /\ ReactionOf(Original, rid).upper_bound # 0

\* C24: when a solve of the essentiality pass raised, the initial one or the
\* knockout solve of any reaction, the call goes on to the decision pass and
\* returns, the decision pass works with an empty essential set, and
\* preserved_essential is empty.
C24_RaiseEmptiesEssentialSet ==
  (\E i \in 1..Len(warnings) : warnings[i][1] = "essential") =>
    /\ pc \in {"scan", "apply", "done"}
    /\ essential_reactions = {}
    /\ pc = "done" => stats.preserved_essential = <<>>

\* reactions the scan has counted so far
Counted(st) == st.appropriate_count + st.inappropriate_count + st.unknown_count

C26_MarkOnlyCounts ==
  removal_strategy = "mark" =>
    /\ pc \notin {"optimize", "knockout", "solve"}
    /\ essential_reactions = {}
    /\ pc = "done" =>
         /\ Filtered.reactions = Original.reactions
         /\ stats.removed_reactions = <<>>
         /\ stats.constrained_reactions = <<>>
         /\ stats.preserved_essential = <<>>
         /\ stats.inappropriate_count =
              Cardinality({i \in 1..Len(Original.reactions) :
                             Original.reactions[i].id \in Inappropriate})

C26_Witness ==
  /\ pc = "done"
  /\ removal_strategy = "mark"
  /\ preserve_essential
  /\ min_confidence = Some("high")
  /\ stats.inappropriate_count = 2
  /\ \E rid \in Inappropriate : annotations[rid].evidence.confidence = "low"

(* ---------------------------------------------------------------------- *)
(* Properties of calculate_coverage                                        *)
(* ---------------------------------------------------------------------- *)
\* C27: after calculate_coverage(L) on a record with total_reactions > 0,
\* annotated_reactions is |L|, annotation_coverage is |L| / total, each era
\* count is the number of annotations of L with that flag true, and
\* high_confidence_fraction is the share of high-confidence annotations of L
\* (zero for an empty L), whatever the record held before the call.
C27_CoverageRecomputed ==
  [][LET meta == Val(model_meta')
         L == annotation_list'
         high == Cardinality({i \in 1..Len(L) : L[i].evidence.confidence = "high"})
         flagged(era) == Cardinality({i \in 1..Len(L) : L[i][era] = Some(TRUE)})
     IN meta.total_reactions > 0 =>
          /\ meta.annotated_reactions = Len(L)
          /\ meta.annotation_coverage[1] * meta.total_reactions
               = Len(L) * meta.annotation_coverage[2]
          /\ meta.archean_appropriate_count = flagged("archean_appropriate")
          /\ meta.proterozoic_appropriate_count = flagged("proterozoic_appropriate")
          /\ meta.phanerozoic_appropriate_count = flagged("phanerozoic_appropriate")
          /\ meta.high_confidence_fraction[1] * Len(L)
               = high * meta.high_confidence_fraction[2]
          /\ L = <<>> => meta.high_confidence_fraction[1] = 0]_vars

(* ---------------------------------------------------------------------- *)
(* Properties of the lists filter_model_for_era reports                    *)
(* ---------------------------------------------------------------------- *)
\* C28: after a call with strategy "remove" or "constrain", the lists
\* removed_reactions, constrained_reactions and preserved_essential have no
\* duplicates, share no id, hold only annotated reactions classified
\* inappropriate, have inappropriate_count entries between them, and every
\* id of confidence_downgraded is in constrained_reactions.
C28_ListsPartitionInappropriate ==
  (pc = "done" /\ removal_strategy \in {"remove", "constrain"}) =>
    LET all == stats.removed_reactions \o stats.constrained_reactions
                 \o stats.preserved_essential
    IN /\ Injective(all)
       /\ \A i \in 1..Len(all) : all[i] \in Inappropriate
       /\ Len(all) = stats.inappropriate_count
       /\ \A i \in 1..Len(Downgraded) : InSeq(Downgraded[i], stats.constrained_reactions)

C28_Witness ==
  /\ pc = "done"
  /\ removal_strategy = "remove"
  /\ stats.preserved_essential # <<>>
  /\ Downgraded # <<>>
  /\ stats.inappropriate_count = 2

\* C29: the reactions of the returned model are those of the original
\* without the ids of removed_reactions, all of which the original had; a
\* reaction that has no annotation or is classified appropriate is in the
\* returned model with the bounds it has in the original.
C29_OnlyInappropriateTouched ==
  pc = "done" =>
    /\ {stats.removed_reactions[i] : i \in 1..Len(stats.removed_reactions)}
         \subseteq Ids(Original)
    /\ Ids(Filtered) =
         Ids(Original) \ {stats.removed_reactions[i] : i \in 1..Len(stats.removed_reactions)}
    /\ \A i \in 1..Len(Original.reactions) :
         LET rxn == Original.reactions[i] IN
         rxn.id \notin Inappropriate =>
           HasId(Filtered, rxn.id) /\ ReactionOf(Filtered, rxn.id) = rxn

C29_Witness ==
  /\ pc = "done"
  /\ removal_strategy = "remove"
  /\ Len(stats.removed_reactions) = 1
  /\ Len(Filtered.reactions) = 1
  /\ Filtered.reactions[1].id \notin Inappropriate

====
